---- MODULE Spec2Model ----
(***************************************************************************)
(* A model of loggit: the template compiler (logger/formatter.rs), the     *)
(* file-name template and file name (logger/file_handler), the file       *)
(* manager with its rotation scan and archiver (file_manager.rs) and the   *)
(* shared configuration with the log handlers (logger.rs, lib.rs).         *)
(*                                                                         *)
(* Strings are sequences of one-character strings, so that the scanner,    *)
(* the forbidden-character test and the extension split work on the        *)
(* characters as the code does.                                            *)
(***************************************************************************)
EXTENDS Integers, Sequences, FiniteSets, TLC

VARIABLES
    template,   \* SpecParse: the template handed to a setter, as its atoms
    cfg,        \* CONFIG: the process-wide Config behind the RwLock
    fm,         \* the FileManagers created so far; Config.file_manager holds an index
    files,      \* file system: path -> sequence of appended pieces (log files)
    archives,   \* file system: archive path -> contents of the archived file
    archive_dir_exists, \* whether ./loggit_archives/ exists
    now,        \* the clock, in seconds since the epoch (UTC = local time)
    terminal,   \* what has been printed, oldest first
    last,       \* the last call: its kind, arguments, result and pre-state
    pc,         \* SpecConc: each thread's position in its log call
    local,      \* SpecConc: each thread's locals
    rwlock,     \* SpecConc: the set of threads holding a CONFIG read guard
    mutex,      \* SpecConc: the thread holding the file manager mutex, or None
    build,      \* whether the build has overflow checks (debug) or wraps (release)
    used        \* how many log calls and clock ticks have happened

vars == <<template, cfg, fm, files, archives, archive_dir_exists,
          now, terminal, last, pc, local, rwlock, mutex, build, used>>

None == "None"

\* Option<T> for numbers: Absent is None, Some(v) holds v
Absent == <<>>
Some(v) == <<v>>
unwrap(o) == o[1]
unwrap_or(o, d) == IF o = Absent THEN d ELSE o[1]

----------------------------------------------------------------------------
(* Levels: lib.rs, enum Level with derived Ord.                            *)

Levels == <<"TRACE", "DEBUG", "INFO", "WARN", "ERROR">>

LevelSet == {Levels[i] : i \in 1..Len(Levels)}

LevelOrd(l) == CHOOSE i \in 1..Len(Levels) : Levels[i] = l

\* Level::to_string
LevelChars(l) ==
    CASE l = "TRACE" -> <<"T", "R", "A", "C", "E">>
      [] l = "DEBUG" -> <<"D", "E", "B", "U", "G">>
      [] l = "INFO"  -> <<"I", "N", "F", "O">>
      [] l = "WARN"  -> <<"W", "A", "R", "N">>
      [] l = "ERROR" -> <<"E", "R", "R", "O", "R">>

----------------------------------------------------------------------------
(* Character strings.                                                      *)

RECURSIVE Flatten(_)
Flatten(ss) == IF ss = <<>> THEN <<>> ELSE Head(ss) \o Flatten(Tail(ss))

Contains(s, c) == \E i \in 1..Len(s) : s[i] = c

EndsWith(s, suffix) ==
    /\ Len(s) >= Len(suffix)
    /\ SubSeq(s, Len(s) - Len(suffix) + 1, Len(s)) = suffix

\* position of the last occurrence of c in s (0 if none)
LastIndexOf(s, c) ==
    IF Contains(s, c)
    THEN CHOOSE i \in 1..Len(s) : s[i] = c /\ \A j \in (i + 1)..Len(s) : s[j] # c
    ELSE 0

Reverse(s) == [i \in 1..Len(s) |-> s[Len(s) + 1 - i]]

\* F applied to the value v: names v once for the body of F
With(v, F(_)) == F(v)

Ok(v) == [ok |-> TRUE, val |-> v, err |-> None]
Err(e) == [ok |-> FALSE, val |-> None, err |-> e]

----------------------------------------------------------------------------
(* formatter.rs: colours and log parts.                                    *)

red == <<"r", "e", "d">>
green == <<"g", "r", "e", "e", "n">>
blue == <<"b", "l", "u", "e">>
yellow == <<"y", "e", "l", "l", "o", "w">>
black == <<"b", "l", "a", "c", "k">>
white == <<"w", "h", "i", "t", "e">>
purple == <<"p", "u", "r", "p", "l", "e">>

message == <<"m", "e", "s", "s", "a", "g", "e">>
time == <<"t", "i", "m", "e">>
date == <<"d", "a", "t", "e">>
file == <<"f", "i", "l", "e">>
line == <<"l", "i", "n", "e">>
level == <<"l", "e", "v", "e", "l">>
text == <<"t", "e", "x", "t">>
module == <<"m", "o", "d", "u", "l", "e">>

\* LogColor::get_colors_str
get_colors_str == {red, green, blue, yellow, black, white, purple}

\* impl From<&str> for LogColor
LogColor_from(value) ==
    CASE value = red -> "Red"
      [] value = green -> "Green"
      [] value = blue -> "Blue"
      [] value = yellow -> "Yellow"
      [] value = black -> "Black"
      [] value = white -> "White"
      [] value = purple -> "Purple"
      [] OTHER -> "White"

\* LogPart::get_parts_str
get_parts_str == {message, time, date, file, line, date, level, text, module}

\* enum LogPart; Text carries its string
LogPart(kind, t) == [part |-> kind, t |-> t]

\* impl From<&str> for LogPart
LogPart_from(value) ==
    CASE value = message -> LogPart("Message", <<>>)
      [] value = time -> LogPart("Time", <<>>)
      [] value = date -> LogPart("Date", <<>>)
      [] value = file -> LogPart("File", <<>>)
      [] value = line -> LogPart("Line", <<>>)
      [] value = level -> LogPart("Level", <<>>)
      [] value = module -> LogPart("ModulePath", <<>>)
      [] OTHER -> LogPart("Text", <<>>)

\* struct LogFormatWrapper
LogFormatWrapper(color, part) == [color |-> color, part |-> part]

----------------------------------------------------------------------------
(* formatter.rs: the scanner.                                              *)

\* enum ParseSymbs.  A chain AndNext(AndNext(Start, a), b) is held as the
\* sequence <<Start, a, b>> of its elements, innermost first.
Start == <<[k |-> "Start"]>>
AndNext(next, el) == Append(next, el)
SymbText(t) == [k |-> "Text", t |-> t]
AngleOpen == [k |-> "AngleOpen"]
AngleClose == [k |-> "AngleClose"]
BracketOpen == [k |-> "BracketOpen"]
BracketClose == [k |-> "BracketClose"]

\* enum ParseParts
PartText(t) == [k |-> "Text", t |-> t]
PartColor(t) == [k |-> "Color", t |-> t]
PartBracketBlock(t) == [k |-> "BracketBlock", t |-> t]

\* the symbol a delimiter character stands for
delimiter_symb(c) ==
    CASE c = "{" -> BracketOpen
      [] c = "}" -> BracketClose
      [] c = "<" -> AngleOpen
      [] c = ">" -> AngleClose

\* string_parse takes one character per call: a delimiter pushes Text(acc_text)
\* (empty or not) and then its own symbol on acc1 and clears acc_text, any
\* other character is appended to acc_text, and the end of the string pushes
\* Text(acc_text) if it is not empty.  The chain that recursion returns is
\* given here by position: the k-th delimiter contributes the text since the
\* delimiter before it and its symbol.
string_parse(string, acc_text, acc1) ==
    LET n == Len(string)
        delims == {i \in 1..n : string[i] \in {"{", "}", "<", ">"}}
        d == Cardinality(delims)
        pos(k) == IF k = 0 THEN 0
                  ELSE IF k > d THEN n + 1
                  ELSE CHOOSE i \in delims : Cardinality({j \in delims : j <= i}) = k
        text_before(k) == (IF k = 1 THEN acc_text ELSE <<>>)
                            \o SubSeq(string, pos(k - 1) + 1, pos(k) - 1)
        pushed == [i \in 1..(2 * d) |->
                     IF i % 2 = 1 THEN SymbText(text_before((i + 1) \div 2))
                     ELSE delimiter_symb(string[pos(i \div 2)])]
        rest == text_before(d + 1)
    IN  acc1 \o pushed \o (IF rest # <<>> THEN <<SymbText(rest)>> ELSE <<>>)

\* the elements in the order parse_symbs_to_vec pushes them: outermost first
symbs_pushed(curr) == [i \in 1..Len(curr) |-> curr[Len(curr) + 1 - i]]

\* parse_symbs_to_vec: push from the outside in, then reverse
parse_symbs_to_vec(symbs) == Reverse(symbs_pushed(symbs))

\* ParseParts::verify_color_block_integriy
verify_color_block_integriy(p) ==
    CASE p.k = "Color" -> p.t \in get_colors_str
      [] p.k = "BracketBlock" -> p.t \in get_parts_str
      [] OTHER -> TRUE

\* the while-let loop of parse_vec_of_parse_symb_to_parts, from position i
RECURSIVE symb_to_parts_loop(_, _, _)
symb_to_parts_loop(symbs, i, res) ==
    IF i > Len(symbs)
    THEN Ok(res)
    ELSE LET el == symbs[i]
             has1 == i + 1 <= Len(symbs) /\ symbs[i + 1].k = "Text"
         IN  CASE el.k = "Start" -> symb_to_parts_loop(symbs, i + 1, res)
               [] el.k = "AndNext" -> Err("UnexpectedError")
               [] el.k = "Text" ->
                    symb_to_parts_loop(symbs, i + 1, Append(res, PartText(el.t)))
               [] el.k = "AngleOpen" ->
                    IF has1 /\ i + 2 <= Len(symbs) /\ symbs[i + 2].k = "AngleClose"
                    THEN symb_to_parts_loop(symbs, i + 3,
                                            Append(res, PartColor(symbs[i + 1].t)))
                    ELSE Err("IncorrectDataGiven")
               [] el.k = "BracketOpen" ->
                    IF has1 /\ i + 2 <= Len(symbs) /\ symbs[i + 2].k = "BracketClose"
                    THEN symb_to_parts_loop(symbs, i + 3,
                                            Append(res, PartBracketBlock(symbs[i + 1].t)))
                    ELSE Err("IncorrectDataGiven")
               [] OTHER -> Err("IncorrectDataGiven")

parse_vec_of_parse_symb_to_parts(symbs) ==
    With(symb_to_parts_loop(symbs, 1, <<>>), LAMBDA r :
        IF ~r.ok THEN r
        ELSE IF \E i \in 1..Len(r.val) : ~verify_color_block_integriy(r.val[i])
             THEN Err("IncorrectDataGiven")
             ELSE r)

\* what a colour tag does to curr_color: the inner match compares the open
\* colour with curr_color.unwrap(), that is with itself
color_tag_closes(curr_color, tag_text) == curr_color = curr_color

\* the for loop of parse_parts_to_formatter, from position i
RECURSIVE parts_to_formatter_loop(_, _, _, _)
parts_to_formatter_loop(parts, i, res, curr_color) ==
    IF i > Len(parts)
    THEN IF curr_color # None THEN Err("IncorrectDataGiven") ELSE Ok(res)
    ELSE LET el == parts[i]
         IN  CASE el.k = "Text" ->
                    parts_to_formatter_loop(parts, i + 1,
                        Append(res, LogFormatWrapper(curr_color, LogPart("Text", el.t))),
                        curr_color)
               [] el.k = "Color" ->
                    IF curr_color = None
                    THEN parts_to_formatter_loop(parts, i + 1, res, LogColor_from(el.t))
                    ELSE IF color_tag_closes(curr_color, el.t)
                         THEN parts_to_formatter_loop(parts, i + 1, res, None)
                         ELSE Err("IncorrectDataGiven")
               [] el.k = "BracketBlock" ->
                    parts_to_formatter_loop(parts, i + 1,
                        Append(res, LogFormatWrapper(curr_color, LogPart_from(el.t))),
                        curr_color)
               [] OTHER -> parts_to_formatter_loop(parts, i + 1, res, curr_color)

\* a faulty variant of parse_parts_to_formatter: the error of the loop (a colour
\* still open at the end included) is dropped
formatter_without_errors(parts) ==
    With(parts_to_formatter_loop(parts, 1, <<>>, None), LAMBDA r :
        IF r.ok THEN r ELSE Ok(<<>>))

parse_parts_to_formatter(parts) == parts_to_formatter_loop(parts, 1, <<>>, None)

\* the second half of parse_string_to_wrappers, on the parts or their error
parts_to_wrappers(parts) ==
    IF ~parts.ok
    THEN Err("UnableToParseSymbolsToParts")
    ELSE With(parse_parts_to_formatter(parts.val), LAMBDA f :
             IF f.ok THEN f ELSE Err("UnableToParsePartsToFormatter"))

parse_string_to_wrappers(t) ==
    parts_to_wrappers(
        parse_vec_of_parse_symb_to_parts(
            parse_symbs_to_vec(string_parse(t, <<>>, Start))))

parse_string_to_logparts(t) ==
    With(parse_string_to_wrappers(t), LAMBDA wrappers :
        IF ~wrappers.ok THEN wrappers
        ELSE Ok([i \in 1..Len(wrappers.val) |-> wrappers.val[i].part]))

\* LogFormatter::parse_from_string
parse_from_string(t) == parse_string_to_wrappers(t)

----------------------------------------------------------------------------
(* helper.rs: the clock strings.  chrono's UTC calendar is modelled by its *)
(* contract (days since 1970-01-01 to year, month, day).                   *)

SECONDS_IN_DAY == 86400

\* a mutant of is_leap: every fourth year
is_leap_every_fourth(y) == y % 4 = 0

is_leap(y) == (y % 4 = 0 /\ y % 100 # 0) \/ (y % 400 = 0)

days_in_year(y) == IF is_leap(y) THEN 366 ELSE 365

days_in_month(y, m) ==
    CASE m \in {1, 3, 5, 7, 8, 10, 12} -> 31
      [] m \in {4, 6, 9, 11} -> 30
      [] m = 2 -> IF is_leap(y) THEN 29 ELSE 28
      [] OTHER -> 0

RECURSIVE year_of(_, _)
year_of(days, y) ==
    IF days >= days_in_year(y) THEN year_of(days - days_in_year(y), y + 1)
    ELSE [year |-> y, days |-> days]

RECURSIVE month_of(_, _, _)
month_of(days, y, m) ==
    IF days >= days_in_month(y, m) THEN month_of(days - days_in_month(y, m), y, m + 1)
    ELSE [month |-> m, days |-> days]

\* (day, month, year, hour, minute, second) of the instant t
get_current_time_in_utc(t) ==
    With(year_of(t \div SECONDS_IN_DAY, 1970), LAMBDA yr :
    With(month_of(yr.days, yr.year, 1), LAMBDA mo :
        LET secs == t % SECONDS_IN_DAY
        IN  [day |-> mo.days + 1, month |-> mo.month, year |-> yr.year,
             hour |-> secs \div 3600, minute |-> (secs % 3600) \div 60,
             second |-> secs % 60]))

\* seconds_to_ymdhms after its first two statements, which split the seconds
\* into whole days and the seconds of the last day
ymdhms_of(days, seconds) ==
    With(year_of(days, 1970), LAMBDA yr :
    With(month_of(yr.days, yr.year, 1), LAMBDA mo :
        [year |-> yr.year, month |-> mo.month, day |-> 1 + mo.days,
         hour |-> seconds \div 3600, minute |-> (seconds % 3600) \div 60,
         second |-> (seconds % 3600) % 60]))

seconds_to_ymdhms(seconds) == ymdhms_of(seconds \div SECONDS_IN_DAY, seconds % SECONDS_IN_DAY)

DigitChars == <<"0", "1", "2", "3", "4", "5", "6", "7", "8", "9">>

\* the decimal text of a natural number, as format!("{}", n) prints it
RECURSIVE to_string(_)
to_string(n) ==
    IF n < 10 THEN <<DigitChars[n + 1]>>
    ELSE Append(to_string(n \div 10), DigitChars[(n % 10) + 1])

get_current_date_in_string(t) ==
    With(get_current_time_in_utc(t), LAMBDA c :
        to_string(c.day) \o <<"-">> \o to_string(c.month) \o <<"-">> \o to_string(c.year))

get_current_time_in_string(t) ==
    With(get_current_time_in_utc(t), LAMBDA c :
        to_string(c.hour) \o <<":">> \o to_string(c.minute) \o <<":">> \o to_string(c.second))

----------------------------------------------------------------------------
(* file_handler/file_formatter.rs and file_name.rs.                        *)

\* FileFormatter::is_part_authorized
is_part_authorized(part) == part.part \notin {"Message", "File", "Line"}

\* FileFormatter::forbidden_characters
forbidden_characters == {"<", ">", "&", "%"}

\* FileFormatter::try_from_string: Ok(the Vec<LogPart>) or the error
try_from_string(format) ==
    IF \E ch \in forbidden_characters : Contains(format, ch)
    THEN Err("IncorrectCharacterGiven")
    ELSE With(parse_string_to_logparts(format), LAMBDA elems :
             IF ~elems.ok THEN Err("IncorrectFormatPartGiven")
             ELSE IF elems.val = <<>> THEN Err("EmptyStringGiven")
             ELSE LET last_elem == elems.val[Len(elems.val)]
                  IN  IF last_elem.part # "Text" THEN Err("NoFileExtensionProvided")
                      ELSE IF ~Contains(last_elem.t, ".")
                           THEN Err("NoFileExtensionProvided")
                      ELSE IF Len(last_elem.t) = 1 \/ EndsWith(last_elem.t, <<".">>)
                           THEN Err("NoFileExtensionProvided")
                      ELSE IF \E i \in 1..Len(elems.val) : ~is_part_authorized(elems.val[i])
                           THEN Err("IncorrectFormatPartGiven")
                      ELSE Ok(elems.val))

\* FileName::acceptable_file_extensions
acceptable_file_extensions == {<<"t", "x", "t">>, <<"l", "o", "g">>}

\* a faulty variant of is_acceptable_file_extension: every extension passes
any_file_extension(ext) == TRUE

is_acceptable_file_extension(ext) == ext \in acceptable_file_extensions

\* FileName::get_string_from_log_parts at the instant t
get_string_from_log_parts(parts, lvl, t) ==
    Flatten([i \in 1..Len(parts) |->
        CASE parts[i].part = "Time" -> get_current_time_in_string(t)
          [] parts[i].part = "Date" -> get_current_date_in_string(t)
          [] parts[i].part = "Level" -> LevelChars(lvl)
          [] parts[i].part = "Text" -> parts[i].t
          [] OTHER -> <<>>])

\* FileName::from_file_formatter at the instant t
from_file_formatter(format, lvl, t) ==
    IF format = <<>> THEN Err("NoFormatProvided")
    ELSE LET last_part == format[Len(format)]
         IN  IF last_part.part # "Text" THEN Err("IncorrectLastPart")
             ELSE IF ~Contains(last_part.t, ".") THEN Err("NoFileExtensionProvided")
             ELSE LET dot == LastIndexOf(last_part.t, ".")
                      extension == SubSeq(last_part.t, dot + 1, Len(last_part.t))
                      file_name_without_ext == SubSeq(last_part.t, 1, dot - 1)
                      parts == [format EXCEPT ![Len(format)] =
                                    LogPart("Text", file_name_without_ext)]
                  IN  IF ~is_acceptable_file_extension(extension)
                      THEN Err("IncorrectFileExtension")
                      ELSE Ok([file_name |-> get_string_from_log_parts(parts, lvl, t),
                               file_num |-> Absent,
                               file_extension |-> extension])

\* FileName::increase_num
increase_num(name) ==
    [name EXCEPT !.file_num = IF name.file_num = Absent THEN Some(1)
                                ELSE Some(unwrap(name.file_num) + 1)]

\* impl From<FileName> for String, FileName::get_full_file_name
get_full_file_name(name) ==
    name.file_name
      \o (IF name.file_num = Absent THEN <<>>
          ELSE <<"(">> \o to_string(unwrap(name.file_num)) \o <<")">>)
      \o <<".">> \o name.file_extension

----------------------------------------------------------------------------
(* file_manager.rs: rotation rules.                                        *)

U8 == 256

\* enum RotationType
Period(p) == [kind |-> "Period", a |-> p, b |-> 0]
Time(h, m) == [kind |-> "Time", a |-> h, b |-> m]
Size(s) == [kind |-> "Size", a |-> s, b |-> 0]

\* struct Rotation
Rotation(rot_type, next) == [rotation_type |-> rot_type, next_rotation |-> next]

\* the branch of Rotation::init_from_rotation_type a Time(h, m) rule takes at t
next_rotation_is_today(rot_type, t) ==
    With(get_current_time_in_utc(t), LAMBDA c :
        c.hour < rot_type.a \/ (c.hour = rot_type.a /\ c.minute < rot_type.b))

\* ((h * 60 * 60) + (m * 60)) as u64, computed on u8 operands: the value a
\* build without overflow checks produces
secs_desirable_u8(h, m) ==
    (((((h * 60) % U8) * 60) % U8) + ((m * 60) % U8)) % U8

\* whether that u8 expression overflows (a build with overflow checks panics)
secs_desirable_overflows(h, m) ==
    \/ h * 60 >= U8
    \/ (((h * 60) % U8) * 60) >= U8
    \/ m * 60 >= U8
    \/ (((h * 60) % U8) * 60) + (m * 60) >= U8

\* Rotation::init_from_rotation_type panics at t (overflow checks on)
init_from_rotation_type_panics(rot_type, t) ==
    /\ rot_type.kind = "Time"
    /\ ~next_rotation_is_today(rot_type, t)
    /\ secs_desirable_overflows(rot_type.a, rot_type.b)

\* a mutant of init_from_rotation_type: every trigger is counted from the clock
init_from_clock(rot_type, t) == Rotation(rot_type, t + rot_type.a)

\* Rotation::init_from_rotation_type at the instant t (no panic)
init_from_rotation_type(rot_type, t) ==
    CASE rot_type.kind = "Period" -> Rotation(rot_type, t + rot_type.a)
      [] rot_type.kind = "Time" ->
            With(get_current_time_in_utc(t), LAMBDA c :
                LET secs_curr == c.hour * 60 * 60 + c.minute * 60
                IN  IF next_rotation_is_today(rot_type, t)
                    THEN Rotation(rot_type,
                                  t + ((rot_type.a * 60 * 60 + rot_type.b * 60) - secs_curr))
                    ELSE Rotation(rot_type,
                                  t + (24 * 60 * 60 - secs_curr)
                                    + secs_desirable_u8(rot_type.a, rot_type.b)))
      [] OTHER -> Rotation(rot_type, rot_type.a)

----------------------------------------------------------------------------
(* file_manager.rs: the file system the manager works on.  A file is the   *)
(* sequence of the pieces written to it; a piece is the text of one write  *)
(* call or the newline that follows it.                                    *)

TextPiece(mess) == [t |-> "text", mess |-> mess]
NewLine == [t |-> "nl", mess |-> None]

PieceBytes(p) == IF p.t = "nl" THEN 1 ELSE p.mess.len

RECURSIVE FileSize(_)
FileSize(content) ==
    IF content = <<>> THEN 0 ELSE PieceBytes(Head(content)) + FileSize(Tail(content))

exists(fs, path) == path \in DOMAIN fs

\* a mutant of File_create: nothing is created
File_create_skipped(fs, path) == fs

\* std::fs::File::create: creates the file, or truncates it if it exists
File_create(fs, path) == [q \in DOMAIN fs \cup {path} |-> IF q = path THEN <<>> ELSE fs[q]]

\* std::fs::remove_file
remove_file(fs, path) == [q \in DOMAIN fs \ {path} |-> fs[q]]

\* one write call on a file opened with append(true).create(true)
append_piece(fs, path, piece) ==
    [q \in DOMAIN fs \cup {path} |->
        IF q = path
        THEN Append(IF path \in DOMAIN fs THEN fs[path] ELSE <<>>, piece)
        ELSE fs[q]]

\* helper::write_to_file: open in append mode (creating), then writeln!, which
\* writes the text and the newline in two calls
write_to_file(fs, path, mess) ==
    append_piece(append_piece(fs, path, TextPiece(mess)), path, NewLine)

\* the I/O calls that may fail in one write_log
FailPoints == {"exists", "create", "open", "new_create", "archive_dir",
               "zip_create", "zip_write", "delete", "append"}

\* the state one write_log works on: the manager's fields and the disk
World(m, fs, ar, ad) ==
    [file_format |-> m.file_format, file_name |-> m.file_name,
     compression |-> m.file_constraints.compression,
     rotation |-> m.file_constraints.rotation,
     files |-> fs, archives |-> ar, archive_dir_exists |-> ad,
     n_new_file |-> 0, n_created |-> <<>>, n_compress |-> 0, regenerated |-> {},
     visits |-> <<>>, panic |-> FALSE]

\* FileManager::create_new_file: the loop, on the world w
RECURSIVE create_new_file_loop(_, _, _, _)
create_new_file_loop(w, lvl, t, io) ==
    IF "new_exists" \in io
    THEN [w |-> w, res |-> Err("UnableToVerifyFileExistence")]
    ELSE IF ~exists(w.files, get_full_file_name(w.file_name))
    THEN With(from_file_formatter(w.file_format, lvl, t), LAMBDA new_f_name :
             IF ~new_f_name.ok
             THEN [w |-> w, res |-> Err("UnableToGetFileName")]
             ELSE LET w1 == [w EXCEPT !.file_name = new_f_name.val]
                      f_name_str == get_full_file_name(new_f_name.val)
                  IN  IF "new_create" \in io
                      THEN [w |-> w1, res |-> Err("UnableToCreateFileIO")]
                      ELSE [w |-> [w1 EXCEPT
                                     !.files = File_create(w.files, f_name_str),
                                     !.n_created = Append(@, [path |-> f_name_str,
                                                    existed |-> exists(w.files, f_name_str)])],
                            res |-> Ok("unit")])
    ELSE create_new_file_loop([w EXCEPT !.file_name = increase_num(@)], lvl, t, io)

create_new_file(w, lvl, t, io) ==
    create_new_file_loop([w EXCEPT !.n_new_file = @ + 1], lvl, t, io)

\* FileManager::get_path_to_compression_foler() plus the archive's name
ArchivesFolder == <<".", "/", "l", "o", "g", "g", "i", "t", "_", "a", "r", "c", "h",
                    "i", "v", "e", "s", "/">>

zip_file_path(path) == ArchivesFolder \o path \o <<".", "z", "i", "p">>

\* FileManager::verify_arichive_dir
verify_arichive_dir(w, io) ==
    IF "archive_dir" \in io
    THEN [w |-> w, res |-> Err("unit")]
    ELSE [w |-> [w EXCEPT !.archive_dir_exists = TRUE], res |-> Ok(TRUE)]

\* FileManager::compress_zip: the archive is created first, then filled
compress_zip(w, path, io) ==
    IF "zip_create" \in io \/ ~w.archive_dir_exists
    THEN [w |-> w, res |-> Err("UnableToCreateZipFile")]
    ELSE LET zip == zip_file_path(path)
             created == [w EXCEPT !.archives =
                            [q \in DOMAIN w.archives \cup {zip} |->
                                IF q = zip THEN [complete |-> FALSE, content |-> <<>>]
                                ELSE w.archives[q]]]
         IN  IF ~exists(w.files, path)
             THEN [w |-> created, res |-> Err("UnableToOpenFileToCompress")]
             ELSE IF "zip_write" \in io
             THEN [w |-> created, res |-> Err("UnableToFinishArchivation")]
             ELSE [w |-> [created EXCEPT !.archives[zip] =
                            [complete |-> TRUE, content |-> w.files[path]]],
                   res |-> Ok("unit")]

\* FileManager::compress_file
compress_file(w, path, io) ==
    With(verify_arichive_dir([w EXCEPT !.n_compress = @ + 1], io), LAMBDA dir :
        IF ~dir.res.ok
        THEN [w |-> dir.w, res |-> Err("InaccessibleArchivationDirectory")]
        ELSE IF dir.w.compression = "Zip"
             THEN compress_zip(dir.w, path, io)
             ELSE [w |-> dir.w, res |-> Err("UnableToGetCompressionSettings")])

\* the test that makes verify_constraints regenerate the rule rot
rule_is_due(rot, f_size, t) ==
    IF rot.rotation_type.kind = "Size"
    THEN f_size > rot.next_rotation
    ELSE t > rot.next_rotation

\* the rotation verify_constraints performs for the first rule that fires:
\* create_new_file, then compress_file and delete_file on the old path
rotate(w, curr_file_name, lvl, t, io) ==
    With(create_new_file(w, lvl, t, io), LAMBDA created :
        IF ~created.res.ok
        THEN [w |-> created.w, res |-> Err("UnableToCreateNewFile"), return |-> TRUE]
        ELSE With(compress_file(created.w, curr_file_name, io), LAMBDA compressed :
                 IF compressed.res.ok
                 THEN IF "delete" \in io \/ ~exists(compressed.w.files, curr_file_name)
                      THEN [w |-> compressed.w, res |-> Err("UnableToDeleteOldLogFile"),
                            return |-> FALSE]
                      ELSE [w |-> [compressed.w EXCEPT
                                     !.files = remove_file(@, curr_file_name)],
                            res |-> Ok("NewFileCreated"), return |-> FALSE]
                 ELSE [w |-> compressed.w, res |-> Err("UnableToCompressFile"),
                       return |-> FALSE]))

\* a mutant of first_to_fire: every regenerated rule rotates
every_rule_rotates(last_idx) == TRUE

\* the test `last_idx == -1` that guards the rotation of a regenerated rule
first_to_fire(last_idx) == last_idx = -1

\* a mutant of restart_from_left: the scan runs on past the end of the list
never_restart(idx, n, last_idx) == idx

\* `if idx >= len && last_idx != -1 { idx = 0; }`: after a rule fired the scan
\* goes on with the rules to the left of it
restart_from_left(idx, n, last_idx) == IF idx >= n /\ last_idx # -1 THEN 0 ELSE idx

\* the loop of FileManager::verify_constraints; idx counts from 0 as in the
\* code; visits lists the indexes used on the rule list, in order
RECURSIVE verify_constraints_loop(_, _, _, _, _, _, _, _, _, _)
verify_constraints_loop(w, idx, last_idx, res, f_size, curr_file_name, lvl, t, io, checks) ==
    LET n == Len(w.rotation)
        done == [w |-> w, res |-> res]
    IN  IF idx >= n /\ last_idx = -1 THEN done
        ELSE IF idx = last_idx THEN done
        ELSE LET idx1 == restart_from_left(idx, n, last_idx)
             IN  IF last_idx = 0 THEN done
                 ELSE IF idx1 >= n
                 THEN [w |-> [w EXCEPT !.panic = TRUE, !.visits = Append(@, idx1)],
                       res |-> res]
                 ELSE LET rot == w.rotation[idx1 + 1]
                          seen == [w EXCEPT !.visits = Append(@, idx1)]
                      IN  IF rule_is_due(rot, f_size, t) \/ last_idx # -1
                          THEN IF checks /\ init_from_rotation_type_panics(rot.rotation_type, t)
                               THEN [w |-> [seen EXCEPT !.panic = TRUE], res |-> res]
                               ELSE With([seen EXCEPT
                                           !.rotation[idx1 + 1] =
                                               init_from_rotation_type(rot.rotation_type, t),
                                           !.regenerated = @ \cup {idx1}], LAMBDA w1 :
                                        IF first_to_fire(last_idx)
                                        THEN With(rotate(w1, curr_file_name, lvl, t, io),
                                               LAMBDA r :
                                                 IF r.return
                                                 THEN [w |-> r.w, res |-> r.res]
                                                 ELSE verify_constraints_loop(r.w, idx1 + 1,
                                                        idx1, r.res, f_size, curr_file_name,
                                                        lvl, t, io, checks))
                                        ELSE verify_constraints_loop(w1, idx1 + 1, last_idx,
                                                res, f_size, curr_file_name, lvl, t, io, checks))
                          ELSE verify_constraints_loop(seen, idx1 + 1, last_idx, res, f_size,
                                                       curr_file_name, lvl, t, io, checks)

\* FileManager::verify_constraints
verify_constraints(w, lvl, t, io, checks) ==
    LET curr_file_name == get_full_file_name(w.file_name)
    IN  IF "exists" \in io
        THEN [w |-> w, res |-> Err("UnableToVerifyFileExistence")]
        ELSE IF ~exists(w.files, curr_file_name) /\ "create" \in io
        THEN [w |-> w, res |-> Err("UnableToCreateFile")]
        ELSE LET ensured == IF exists(w.files, curr_file_name) THEN w
                            ELSE [w EXCEPT !.files = File_create(@, curr_file_name)]
             IN  IF "open" \in io
                 THEN [w |-> ensured, res |-> Err("UnableToOpenFile")]
                 ELSE verify_constraints_loop(ensured, 0, -1, Ok("ConstraintsPassed"),
                                              FileSize(ensured.files[curr_file_name]),
                                              curr_file_name, lvl, t, io, checks)

\* FileManager::write_log
write_log(w, mess, lvl, t, io, checks) ==
    With(verify_constraints(w, lvl, t, io, checks), LAMBDA constrs :
        LET f_name == get_full_file_name(constrs.w.file_name)
        IN  IF constrs.w.panic
            THEN [w |-> constrs.w, constrs |-> constrs.res, res |-> Err("panic")]
            ELSE IF "append" \in io
            THEN [w |-> constrs.w, constrs |-> constrs.res,
                  res |-> Err("UnableToWriteToFile")]
            ELSE [w |-> [constrs.w EXCEPT !.files = write_to_file(@, f_name, mess)],
                  constrs |-> constrs.res, res |-> Ok("unit")])

----------------------------------------------------------------------------
(* file_manager.rs: parsing rule and compression strings, the setters.     *)

\* the longest digit string the model parses (its numbers stay below 2^31)
MaxDigits == 9

DigitValue(c) == CHOOSE d \in 0..9 : DigitChars[d + 1] = c

IsDigit(c) == \E d \in 0..9 : DigitChars[d + 1] = c

RECURSIVE digits_value(_, _)
digits_value(s, acc) ==
    IF s = <<>> THEN acc ELSE digits_value(Tail(s), acc * 10 + DigitValue(Head(s)))

\* str::parse for an unsigned integer type with the given maximum (Absent:
\* wider than the model's numbers): an optional plus sign, then one or more digits
parse_unsigned(s, max) ==
    LET ds == IF s # <<>> /\ Head(s) = "+" THEN Tail(s) ELSE s
    IN  IF ds = <<>> \/ \E i \in 1..Len(ds) : ~IsDigit(ds[i])
        THEN Err("ParseIntError")
        ELSE IF Len(ds) > MaxDigits \/ (max # Absent /\ digits_value(ds, 0) > unwrap(max))
             THEN Err("ParseIntError")
             ELSE Ok(digits_value(ds, 0))

\* str::split(":"): the pieces between the colons
RECURSIVE split_colon(_, _)
split_colon(s, acc) ==
    IF s = <<>> THEN <<acc>>
    ELSE IF Head(s) = ":" THEN <<acc>> \o split_colon(Tail(s), <<>>)
    ELSE split_colon(Tail(s), Append(acc, Head(s)))

KB == <<" ", "K", "B">>
MB == <<" ", "M", "B">>
GB == <<" ", "G", "B">>
TB == <<" ", "T", "B">>
hour == <<" ", "h", "o", "u", "r">>
day == <<" ", "d", "a", "y">>
week == <<" ", "w", "e", "e", "k">>
month == <<" ", "m", "o", "n", "t", "h">>
year == <<" ", "y", "e", "a", "r">>

\* u32 arithmetic, on the four bytes of a number (least significant first)
Byte == 256

bytes_of(n) == [i \in 0..3 |-> (n \div (Byte ^ i)) % Byte]

\* the sum of the byte products that land in column k of a * b
column(a, b, k) ==
    (IF k \in 0..3 THEN a[0] * b[k] ELSE 0)
    + (IF k - 1 \in 0..3 THEN a[1] * b[k - 1] ELSE 0)
    + (IF k - 2 \in 0..3 THEN a[2] * b[k - 2] ELSE 0)
    + (IF k - 3 \in 0..3 THEN a[3] * b[k - 3] ELSE 0)

\* the carry into column k
RECURSIVE carry_into(_, _, _)
carry_into(a, b, k) ==
    IF k = 0 THEN 0 ELSE (column(a, b, k - 1) + carry_into(a, b, k - 1)) \div Byte

product_byte(a, b, k) == (column(a, b, k) + carry_into(a, b, k)) % Byte

\* n * f does not fit in a u32 (a build with overflow checks panics)
u32_mul_overflows(n, f) ==
    \E k \in 4..7 : product_byte(bytes_of(n), bytes_of(f), k) # 0

\* n * f reduced modulo 2^32: the value a build without overflow checks
\* produces.  The inputs the specifications draw keep it below 2^31.
u32_wrapping_mul(n, f) ==
    product_byte(bytes_of(n), bytes_of(f), 0)
    + product_byte(bytes_of(n), bytes_of(f), 1) * Byte
    + product_byte(bytes_of(n), bytes_of(f), 2) * Byte * Byte
    + product_byte(bytes_of(n), bytes_of(f), 3) * Byte * Byte * Byte

\* the factor of a period unit, in seconds
period_factor(t) ==
    CASE EndsWith(t, hour) -> 60 * 60
      [] EndsWith(t, day) -> 60 * 60 * 24
      [] EndsWith(t, week) -> 60 * 60 * 24 * 7
      [] EndsWith(t, month) -> 60 * 60 * 24 * 30
      [] OTHER -> 60 * 60 * 24 * 365

\* RotationType::try_from_string panics on t: the u32 product of a period
\* rule overflows (overflow checks on)
try_from_string_overflows(t) ==
    /\ ~Contains(t, ":")
    /\ ~\E u \in {KB, MB, GB, TB} : EndsWith(t, u)
    /\ \E u \in {hour, day, week, month, year} :
          /\ EndsWith(t, u)
          /\ With(parse_unsigned(SubSeq(t, 1, Len(t) - Len(u)), Absent), LAMBDA num :
                 num.ok /\ u32_mul_overflows(num.val, period_factor(t)))

\* RotationType::try_from_string: Ok(the rule) or Err (None in the code).
\* Numbers are kept below 2^31 by the inputs the specifications draw.
RotationType_try_from_string(t) ==
    IF Contains(t, ":")
    THEN With(split_colon(t, <<>>), LAMBDA sp :
             IF Len(sp) # 2 THEN Err(None)
             ELSE With(parse_unsigned(sp[1], Some(U8 - 1)), LAMBDA h :
                  With(parse_unsigned(sp[2], Some(U8 - 1)), LAMBDA m :
                      IF ~h.ok \/ ~m.ok THEN Err(None)
                      ELSE IF h.val \notin 0..23 \/ m.val \notin 0..59 THEN Err(None)
                      ELSE Ok(Time(h.val, m.val)))))
    ELSE IF \E u \in {KB, MB, GB, TB} : EndsWith(t, u)
    THEN LET multiply_factor ==
                 CASE EndsWith(t, KB) -> 1
                   [] EndsWith(t, MB) -> 1024
                   [] EndsWith(t, GB) -> 1024 * 1024
                   [] EndsWith(t, TB) -> 1024 * 1024 * 1024
         IN  With(parse_unsigned(SubSeq(t, 1, Len(t) - 3), Absent), LAMBDA num :
                 IF ~num.ok THEN Err(None) ELSE Ok(Size(num.val * multiply_factor)))
    ELSE IF \E u \in {hour, day, week, month, year} : EndsWith(t, u)
    THEN LET finish_txt ==
                 CASE EndsWith(t, hour) -> hour
                   [] EndsWith(t, day) -> day
                   [] EndsWith(t, week) -> week
                   [] EndsWith(t, month) -> month
                   [] OTHER -> year
             multiply_factor ==
                 CASE finish_txt = hour -> 60 * 60
                   [] finish_txt = day -> 60 * 60 * 24
                   [] finish_txt = week -> 60 * 60 * 24 * 7
                   [] finish_txt = month -> 60 * 60 * 24 * 30
                   [] OTHER -> 60 * 60 * 24 * 365
         IN  With(parse_unsigned(SubSeq(t, 1, Len(t) - Len(finish_txt)), Absent),
               LAMBDA num :
                 IF ~num.ok THEN Err(None)
                 ELSE Ok(Period(u32_wrapping_mul(num.val, multiply_factor))))
    ELSE Err(None)

zip == <<"z", "i", "p">>

\* a mutant of CompressionType_try_from_string: every non-empty string is zip
nonempty_is_zip(t) == IF t # <<>> THEN Ok("Zip") ELSE Err(None)

\* CompressionType::try_from_string
CompressionType_try_from_string(t) == IF t = zip THEN Ok("Zip") ELSE Err(None)

\* struct FileManager with its FileConstraints
FileManager(f_format, f_name, compression, rotation) ==
    [file_format |-> f_format, file_name |-> f_name,
     file_constraints |-> [compression |-> compression, rotation |-> rotation]]

\* FileManager::init_from_string at the instant t: Ok(manager) or Err (None)
init_from_string(format, lvl, t) ==
    With(try_from_string(format), LAMBDA f_format :
        IF ~f_format.ok THEN Err(f_format.err)
        ELSE With(from_file_formatter(f_format.val, lvl, t), LAMBDA f_name :
                 IF ~f_name.ok THEN Err(f_name.err)
                 ELSE Ok(FileManager(f_format.val, f_name.val, None, <<>>))))

\* a mutant of FileManager_add_rotation: a rejected string empties the rule list
add_rotation_clearing(m, string, t) ==
    With(RotationType_try_from_string(string), LAMBDA rot_type :
        IF ~rot_type.ok
        THEN [m |-> [m EXCEPT !.file_constraints.rotation = <<>>], res |-> FALSE]
        ELSE [m |-> [m EXCEPT !.file_constraints.rotation =
                        Append(@, init_from_rotation_type(rot_type.val, t))],
              res |-> TRUE])

\* FileManager::add_rotation at the instant t: the manager afterwards and the bool
FileManager_add_rotation(m, string, t) ==
    With(RotationType_try_from_string(string), LAMBDA rot_type :
        IF ~rot_type.ok THEN [m |-> m, res |-> FALSE]
        ELSE [m |-> [m EXCEPT !.file_constraints.rotation =
                        Append(@, init_from_rotation_type(rot_type.val, t))],
              res |-> TRUE])

\* FileManager::set_compression
FileManager_set_compression(m, string) ==
    With(CompressionType_try_from_string(string), LAMBDA r :
        IF r.ok THEN [m |-> [m EXCEPT !.file_constraints.compression = r.val], res |-> TRUE]
        ELSE [m |-> m, res |-> FALSE])

----------------------------------------------------------------------------
(* lib.rs: Config and its defaults.                                        *)

Ph(name) == <<"{">> \o name \o <<"}">>
Tag(color) == <<"<">> \o color \o <<">">>

\* "{file}-{line} <green>[{level}]<green> - {message}"
DefaultFormatText ==
    Ph(file) \o <<"-">> \o Ph(line) \o <<" ">> \o Tag(green) \o <<"[">> \o Ph(level)
      \o <<"]">> \o Tag(green) \o <<" ", "-", " ">> \o Ph(message)

\* "<red>[{level}]<red> <blue>({file} {line})<blue> - <red>{message}<red>"
DefaultErrorFormatText ==
    Tag(red) \o <<"[">> \o Ph(level) \o <<"]">> \o Tag(red) \o <<" ">> \o Tag(blue)
      \o <<"(">> \o Ph(file) \o <<" ">> \o Ph(line) \o <<")">> \o Tag(blue)
      \o <<" ", "-", " ">> \o Tag(red) \o Ph(message) \o Tag(red)

\* impl Default for LogFormatter
LogFormatter_default == parse_from_string(DefaultFormatText).val

\* impl Default for Config; file_manager is None or the handle of a manager
Config_default ==
    [level |-> "INFO",
     print_to_terminal |-> TRUE,
     colorized |-> FALSE,
     formats |-> [l \in LevelSet |->
                    IF l = "ERROR" THEN parse_from_string(DefaultErrorFormatText).val
                    ELSE LogFormatter_default],
     file_manager |-> Absent,
     archive_dir |-> Absent]

----------------------------------------------------------------------------
(* logger.rs: rendering and the log handlers.                              *)

\* the call-site metadata of the model's log calls: file!(), line!(), module_path!()
CallFile == <<"m", ".", "r", "s">>
CallLine == 7
CallModule == <<"m">>

\* LogColor::get_ascii, by its length in bytes
get_ascii_len(color) ==
    CASE color = "Red" -> 15
      [] color = "Green" -> 15
      [] color = "Blue" -> 15
      [] color = "Yellow" -> 17
      [] color = "Black" -> 13
      [] color = "White" -> 19
      [] color = "Purple" -> 17

\* one rendered segment of string_log: its text (the message is kept as the
\* call's message record), its bytes, and the colour whose escape codes wrap it
Segment(part, log_info, t, color) ==
    With(CASE part.part = "Time" -> get_current_time_in_string(t)
           [] part.part = "File" -> log_info.file
           [] part.part = "Line" -> to_string(log_info.line)
           [] part.part = "Date" -> get_current_date_in_string(t)
           [] part.part = "Level" -> LevelChars(log_info.level)
           [] part.part = "Text" -> part.t
           [] part.part = "ModulePath" -> log_info.module_path
           [] OTHER -> <<>>,
         LAMBDA chars :
        LET bytes == IF part.part = "Message" THEN log_info.message.len ELSE Len(chars)
        IN  [s |-> IF part.part = "Message" THEN log_info.message ELSE chars,
             color |-> color,
             len |-> bytes + (IF color = None THEN 0 ELSE get_ascii_len(color) + 4)])

RECURSIVE SumLen(_)
SumLen(segs) == IF segs = <<>> THEN 0 ELSE Head(segs).len + SumLen(Tail(segs))

\* get_log_format
get_log_format(config, lvl) == config.formats[lvl]

\* a mutant of string_log: the colours follow the colorized flag of the
\* configuration, whatever the caller asks for
string_log_by_flag(config, log_info, colorize, t) ==
    LET parts == get_log_format(config, log_info.level)
    IN  With([i \in 1..Len(parts) |->
                 Segment(parts[i].part, log_info, t,
                         IF config.colorized /\ parts[i].color # None
                         THEN parts[i].color ELSE None)],
             LAMBDA segs :
                 [id |-> log_info.message.id, segs |-> segs, len |-> SumLen(segs)])

\* string_log at the instant t: the string as its segments, with its length
string_log(config, log_info, colorize, t) ==
    LET parts == get_log_format(config, log_info.level)
    IN  With([i \in 1..Len(parts) |->
                 Segment(parts[i].part, log_info, t,
                         IF colorize /\ parts[i].color # None
                         THEN parts[i].color ELSE None)],
             LAMBDA segs :
                 [id |-> log_info.message.id, segs |-> segs, len |-> SumLen(segs)])

\* print_log: one line on stderr (ERROR) or stdout
print_log(out, config, log_info, t) ==
    Append(out, [stream |-> IF log_info.level = "ERROR" THEN "stderr" ELSE "stdout",
                 line |-> string_log(config, log_info, config.colorized, t)])

\* the state a log call works on and returns
Sys(c, heap, fs, ar, ad, out) ==
    [cfg |-> c, fm |-> heap, files |-> fs, archives |-> ar, archive_dir_exists |-> ad,
     terminal |-> out, stats |-> None, panic |-> FALSE]

\* the manager fields of a world, written back after write_log
manager_of(w) == FileManager(w.file_format, w.file_name, w.compression, w.rotation)

\* write_file_log: with_fm(|fm| fm.write_log(mess, cfg_snapshot))
write_file_log(s, log_info, t, io, checks) ==
    With(string_log(s.cfg, log_info, FALSE, t), LAMBDA mess_to_print :
        LET h == s.cfg.file_manager
        IN  IF h = Absent THEN s
            ELSE With(write_log(World(s.fm[unwrap(h)], s.files, s.archives, s.archive_dir_exists),
                                mess_to_print, s.cfg.level, t, io, checks),
                      LAMBDA r :
                     [s EXCEPT !.fm[unwrap(h)] = manager_of(r.w),
                               !.files = r.w.files,
                               !.archives = r.w.archives,
                               !.archive_dir_exists = r.w.archive_dir_exists,
                               !.stats = [n_new_file |-> r.w.n_new_file,
                                          n_created |-> r.w.n_created,
                                          n_compress |-> r.w.n_compress,
                                          regenerated |-> r.w.regenerated,
                                          visits |-> r.w.visits,
                                          constrs |-> r.constrs,
                                          res |-> r.res],
                               !.panic = r.w.panic]))

\* log_handler
log_handler(s, log_info, t, io, checks) ==
    With(IF s.cfg.print_to_terminal
         THEN [s EXCEPT !.terminal = print_log(@, s.cfg, log_info, t)]
         ELSE s,
         LAMBDA printed :
        IF printed.cfg.file_manager # Absent
        THEN write_file_log(printed, log_info, t, io, checks)
        ELSE printed)

\* a mutant of level_passes: no threshold
every_level_passes(lvl, threshold) == TRUE

\* the threshold test of macro_handler: level >= get_log_level()
level_passes(lvl, threshold) == LevelOrd(lvl) >= LevelOrd(threshold)

\* macro_handler
macro_handler(s, lvl, mess, t, io, checks) ==
    LET log_info == [module_path |-> CallModule, file |-> CallFile, line |-> CallLine,
                     message |-> mess, level |-> lvl]
    IN  IF level_passes(lvl, s.cfg.level)
        THEN log_handler(s, log_info, t, io, checks)
        ELSE s

----------------------------------------------------------------------------
(* logger.rs: the public functions, as actions on the shared state.        *)

Snapshot ==
    [cfg |-> cfg, fm |-> fm, files |-> files, archives |-> archives,
     archive_dir_exists |-> archive_dir_exists, terminal |-> terminal, now |-> now]

Call(op, arg, res, stats) ==
    [op |-> op, arg |-> arg, res |-> res, stats |-> stats, pre |-> Snapshot]

Panicked == last.res = "panic"

EmptyFs == [q \in {} |-> <<>>]

\* the variables only the concurrent specification moves
ThreadVars == <<pc, local, rwlock, mutex>>

\* the configuration store a setter works on: Config, the managers behind
\* their handles, and the disk
Store == [cfg |-> cfg, fm |-> fm, files |-> files]

\* a mutant of From_AccessError: the missing file manager is reported as success
access_error_dropped(e) == "Ok"

\* impl From<AccessError> for AddRotationError / SetCompressionError
From_AccessError(e) ==
    CASE e = "FileNotSet" -> "FileIsntSet"
      [] OTHER -> "UnableToLoadConfig"

\* with_fm up to the clone of the Arc: the handle, or AccessError::FileNotSet
with_fm_access(c) ==
    IF c.file_manager = Absent THEN Err("FileNotSet") ELSE Ok(unwrap(c.file_manager))

\* a mutant of init_on: the file manager and the archive directory survive
init_keeping_files(st) ==
    [st |-> [st EXCEPT !.cfg = [Config_default EXCEPT
                                  !.file_manager = st.cfg.file_manager,
                                  !.archive_dir = st.cfg.archive_dir]],
     res |-> "Ok"]

\* init() on the store: *config = Config { ..Default::default() }
init_on(st) == [st |-> [st EXCEPT !.cfg = Config_default], res |-> "Ok"]

set_log_level_on(st, lvl) == [st |-> [st EXCEPT !.cfg.level = lvl], res |-> "Ok"]

set_print_to_terminal_on(st, val) ==
    [st |-> [st EXCEPT !.cfg.print_to_terminal = val], res |-> "Ok"]

set_colorized_on(st, val) == [st |-> [st EXCEPT !.cfg.colorized = val], res |-> "Ok"]

\* a mutant of set_level_formatting_on: a rejected template installs the default
set_level_formatting_defaulting(st, lvl, format) ==
    With(parse_from_string(format), LAMBDA f :
        IF f.ok THEN [st |-> [st EXCEPT !.cfg.formats[lvl] = f.val], res |-> "Ok"]
        ELSE [st |-> [st EXCEPT !.cfg.formats[lvl] = LogFormatter_default],
              res |-> "IncorrectFormatGiven"])

\* a mutant of set_level_formatting_on: the formatter is stored for every level
set_level_formatting_for_all(st, lvl, format) ==
    With(parse_from_string(format), LAMBDA f :
        IF f.ok THEN [st |-> [st EXCEPT !.cfg.formats = [l \in LevelSet |-> f.val]],
                      res |-> "Ok"]
        ELSE [st |-> st, res |-> "IncorrectFormatGiven"])

\* set_level_formatting on the store
set_level_formatting_on(st, lvl, format) ==
    With(parse_from_string(format), LAMBDA f :
        IF f.ok THEN [st |-> [st EXCEPT !.cfg.formats[lvl] = f.val], res |-> "Ok"]
        ELSE [st |-> st, res |-> "IncorrectFormatGiven"])

\* set_global_formatting on the store: set_level_formatting(..)? per level
RECURSIVE set_global_formatting_from(_, _, _)
set_global_formatting_from(st, format, i) ==
    IF i > Len(Levels) THEN [st |-> st, res |-> "Ok"]
    ELSE With(set_level_formatting_on(st, Levels[i], format), LAMBDA r :
             IF r.res # "Ok" THEN r
             ELSE set_global_formatting_from(r.st, format, i + 1))

set_global_formatting_on(st, format) == set_global_formatting_from(st, format, 1)

\* a mutant of set_file_on: an installed manager takes the new template and
\* keeps its rules and its compression
set_file_renaming(st, format, t) ==
    With(init_from_string(format, st.cfg.level, t), LAMBDA r :
        IF r.ok
        THEN [st |-> [st EXCEPT
                        !.fm = Append(@,
                            IF st.cfg.file_manager = Absent THEN r.val
                            ELSE [r.val EXCEPT !.file_constraints =
                                    st.fm[unwrap(st.cfg.file_manager)].file_constraints]),
                        !.cfg.file_manager = Some(Len(st.fm) + 1)],
              res |-> "Ok"]
        ELSE [st |-> st, res |-> "UnableToLoadFromString"])

\* a mutant of set_file_on: the file of the new manager is created at once
set_file_creating(st, format, t) ==
    With(init_from_string(format, st.cfg.level, t), LAMBDA r :
        IF r.ok
        THEN [st |-> [st EXCEPT !.fm = Append(@, r.val),
                                !.cfg.file_manager = Some(Len(st.fm) + 1),
                                !.files = File_create(@, get_full_file_name(r.val.file_name))],
              res |-> "Ok"]
        ELSE [st |-> st, res |-> "UnableToLoadFromString"])

\* set_file on the store at the instant t: a new manager behind a new handle
set_file_on(st, format, t) ==
    With(init_from_string(format, st.cfg.level, t), LAMBDA r :
        IF r.ok
        THEN [st |-> [st EXCEPT !.fm = Append(@, r.val),
                                !.cfg.file_manager = Some(Len(st.fm) + 1)],
              res |-> "Ok"]
        ELSE [st |-> st, res |-> "UnableToLoadFromString"])

\* a directory on the disk
Directory == <<[t |-> "dir", mess |-> None]>>

IsDirectory(content) == Len(content) > 0 /\ content[1].t = "dir"

\* std::fs::create_dir_all on a path of one component; fails when the call
\* fails or the path is a regular file
create_dir_all(fs, path, fails) ==
    IF fails \/ (exists(fs, path) /\ ~IsDirectory(fs[path]))
    THEN [fs |-> fs, ok |-> FALSE]
    ELSE [fs |-> [q \in DOMAIN fs \cup {path} |-> IF q = path THEN Directory ELSE fs[q]],
          ok |-> TRUE]

\* set_archive_dir on the store
set_archive_dir_on(st, dir, fails) ==
    With(create_dir_all(st.files, dir, fails), LAMBDA made :
        IF made.ok
        THEN [st |-> [st EXCEPT !.files = made.fs, !.cfg.archive_dir = Some(dir)],
              res |-> "Ok"]
        ELSE [st |-> st, res |-> "UnableToCreateDir"])

\* add_rotation on the store at the instant t, through with_fm
add_rotation_on(st, constraint, t, checks) ==
    With(with_fm_access(st.cfg), LAMBDA h :
        IF ~h.ok THEN [st |-> st, res |-> From_AccessError(h.err)]
        ELSE IF checks /\ try_from_string_overflows(constraint)
        THEN [st |-> st, res |-> "panic"]
        ELSE With(RotationType_try_from_string(constraint), LAMBDA rot_type :
             IF checks /\ rot_type.ok /\ init_from_rotation_type_panics(rot_type.val, t)
             THEN [st |-> st, res |-> "panic"]
             ELSE With(FileManager_add_rotation(st.fm[h.val], constraint, t), LAMBDA r :
                      [st |-> [st EXCEPT !.fm[h.val] = r.m],
                       res |-> IF r.res THEN "Ok" ELSE "IncorrectFormatGiven"])))

\* set_compression on the store, through with_fm
set_compression_on(st, ctype) ==
    With(with_fm_access(st.cfg), LAMBDA h :
        IF ~h.ok THEN [st |-> st, res |-> From_AccessError(h.err)]
        ELSE With(FileManager_set_compression(st.fm[h.val], ctype), LAMBDA r :
                 [st |-> [st EXCEPT !.fm[h.val] = r.m],
                  res |-> IF r.res THEN "Ok" ELSE "IncorrectCompressionValue"]))

\* struct InterConfig: every field is optional
InterConfig(enabled, lvl, to_term, col, global, per_level, file_name, comp, rots, dir) ==
    [enabled |-> enabled, level |-> lvl, print_to_terminal |-> to_term,
     colorized |-> col, global_formatting |-> global,
     level_formatting |-> per_level, file_name |-> file_name,
     compression |-> comp, rotations |-> rots, archive_dir |-> dir]

\* one setter call of InterConfig::apply, for a field that is present
Step(op, field) == IF field = Absent THEN <<>> ELSE <<[op |-> op, arg |-> unwrap(field)]>>

\* the five optional per-level formats, TRACE first
LevelSteps(level_formatting, i) ==
    IF level_formatting[Levels[i]] = Absent THEN <<>>
    ELSE <<[op |-> "set_level_formatting",
            arg |-> <<Levels[i], unwrap(level_formatting[Levels[i]])>>]>>

\* the setter calls of InterConfig::apply, in the order of the source
apply_steps(ic) ==
    Step("set_log_level", ic.level)
      \o Step("set_print_to_terminal", ic.print_to_terminal)
      \o Step("set_colorized", ic.colorized)
      \o Step("set_global_formatting", ic.global_formatting)
      \o LevelSteps(ic.level_formatting, 1) \o LevelSteps(ic.level_formatting, 2)
      \o LevelSteps(ic.level_formatting, 3) \o LevelSteps(ic.level_formatting, 4)
      \o LevelSteps(ic.level_formatting, 5)
      \o Step("set_file", ic.file_name)
      \o Step("set_compression", ic.compression)
      \o Step("set_archive_dir", ic.archive_dir)
      \o (IF ic.rotations = Absent THEN <<>>
          ELSE [i \in 1..Len(unwrap(ic.rotations)) |->
                  [op |-> "add_rotation", arg |-> unwrap(ic.rotations)[i]]])

\* one setter of InterConfig::apply on the store
run_setter(st, step, t, checks, dir_fails) ==
    CASE step.op = "set_log_level" -> set_log_level_on(st, step.arg)
      [] step.op = "set_print_to_terminal" -> set_print_to_terminal_on(st, step.arg)
      [] step.op = "set_colorized" -> set_colorized_on(st, step.arg)
      [] step.op = "set_global_formatting" -> set_global_formatting_on(st, step.arg)
      [] step.op = "set_level_formatting" ->
            set_level_formatting_on(st, step.arg[1], step.arg[2])
      [] step.op = "set_file" -> set_file_on(st, step.arg, t)
      [] step.op = "set_compression" -> set_compression_on(st, step.arg)
      [] step.op = "set_archive_dir" -> set_archive_dir_on(st, step.arg, dir_fails)
      [] OTHER -> add_rotation_on(st, step.arg, t, checks)

\* the calls from the i-th on, each followed by `?`
RECURSIVE apply_from(_, _, _, _, _, _)
apply_from(st, steps, i, t, checks, dir_fails) ==
    IF i > Len(steps) THEN [st |-> st, res |-> "Ok"]
    ELSE With(run_setter(st, steps[i], t, checks, dir_fails), LAMBDA r :
             IF r.res # "Ok" THEN r
             ELSE apply_from(r.st, steps, i + 1, t, checks, dir_fails))

\* InterConfig::apply
InterConfig_apply(st, ic, t, checks, dir_fails) ==
    IF ic.enabled = Some(FALSE) THEN [st |-> st, res |-> "DisabledToBeUsed"]
    ELSE apply_from(st, apply_steps(ic), 1, t, checks, dir_fails)

\* load_config_from_file on the parsed file: on an error the clone of Config
\* taken before is written back; the clone shares the Arc of the file manager
load_config_from_file_on(st, ic, t, checks, dir_fails) ==
    With(InterConfig_apply(st, ic, t, checks, dir_fails), LAMBDA r :
        IF r.res \in {"Ok", "panic"} THEN r
        ELSE [st |-> [r.st EXCEPT !.cfg = st.cfg], res |-> r.res])

\* a setter call: the store it returns becomes the shared state
Apply(op, arg, r) ==
    /\ ~Panicked
    /\ cfg' = r.st.cfg
    /\ fm' = r.st.fm
    /\ files' = r.st.files
    /\ last' = Call(op, arg, r.res, None)
    /\ UNCHANGED <<template, archives, archive_dir_exists, now,
                   terminal, build, used, ThreadVars>>

\* init()
init == \E r \in {init_on(Store)} : Apply("init", None, r)

\* set_log_level(lvl)
set_log_level(lvl) ==
    \E r \in {set_log_level_on(Store, lvl)} : Apply("set_log_level", lvl, r)

\* set_print_to_terminal(val)
set_print_to_terminal(val) ==
    \E r \in {set_print_to_terminal_on(Store, val)} : Apply("set_print_to_terminal", val, r)

\* set_colorized(val)
set_colorized(val) ==
    \E r \in {set_colorized_on(Store, val)} : Apply("set_colorized", val, r)

\* set_level_formatting(level, format)
set_level_formatting(lvl, format) ==
    \E r \in {set_level_formatting_on(Store, lvl, format)} :
        Apply("set_level_formatting", <<lvl, format>>, r)

\* set_global_formatting(format)
set_global_formatting(format) ==
    \E r \in {set_global_formatting_on(Store, format)} :
        Apply("set_global_formatting", format, r)

\* set_file(format): a new manager behind a new handle
set_file(format) ==
    \E r \in {set_file_on(Store, format, now)} : Apply("set_file", format, r)

\* set_archive_dir(dir), the creation of the directory failing or not
set_archive_dir(dir, fails) ==
    \E r \in {set_archive_dir_on(Store, dir, fails)} :
        Apply("set_archive_dir", <<dir, fails>>, r)

\* add_rotation(constraint), through with_fm
add_rotation(constraint) ==
    \E r \in {add_rotation_on(Store, constraint, now, build.overflow_checks)} :
        Apply("add_rotation", constraint, r)

\* set_compression(ctype), through with_fm
set_compression(ctype) ==
    \E r \in {set_compression_on(Store, ctype)} : Apply("set_compression", ctype, r)

\* load_config_from_file(path), the file parsed to ic
load_config_from_file(ic, dir_fails) ==
    \E r \in {load_config_from_file_on(Store, ic, now, build.overflow_checks, dir_fails)} :
        Apply("load_config_from_file", ic, r)

\* one call of a logging macro at level lvl with a message of len bytes, the
\* I/O calls named in io failing
log(lvl, len, io) ==
    LET mess == [id |-> used.logs + 1, len |-> len]
    IN  \E r \in {macro_handler(Sys(cfg, fm, files, archives, archive_dir_exists, terminal),
                                lvl, mess, now, io, build.overflow_checks)} :
        /\ ~Panicked
        /\ fm' = r.fm
        /\ files' = r.files
        /\ archives' = r.archives
        /\ archive_dir_exists' = r.archive_dir_exists
        /\ terminal' = r.terminal
        /\ used' = [used EXCEPT !.logs = @ + 1,
                                 !.failed = @ \/ io # {}]
        /\ last' = Call("log", [level |-> lvl, mess |-> mess, io |-> io],
                        IF r.panic THEN "panic" ELSE "Ok", r.stats)
        /\ UNCHANGED <<template, cfg, now, build, ThreadVars>>

\* the clock advances by d seconds
Tick(d) ==
    /\ ~Panicked
    /\ now' = now + d
    /\ used' = [used EXCEPT !.ticks = @ + 1]
    /\ UNCHANGED <<template, cfg, fm, files, archives, archive_dir_exists,
                   terminal, last, build, ThreadVars>>

----------------------------------------------------------------------------
(* SpecParse: one setter call on a template drawn from the concatenations  *)
(* of at most MaxAtoms atoms.                                              *)

MaxAtoms == 3

txt == <<"t", "x", "t">>
log_ext == <<"l", "o", "g">>

Atoms ==
    {<<"{">>, <<"}">>, <<"<">>, <<">">>, Tag(red), Tag(blue),
     Ph(message), Ph(date), Ph(module), Ph(text),
     <<"x">>, <<".">> \o txt, <<".", "c", "s", "v">>, <<"&">>}

Templates == UNION {[1..n -> Atoms] : n \in 0..MaxAtoms}

\* the instant the pure-function specifications run at: 1970-01-01 00:00:30
T0 == 30

Started == [op |-> "start", arg |-> None, res |-> "Ok", stats |-> None, pre |-> None]

IdleThreads ==
    /\ pc = <<>>
    /\ local = <<>>
    /\ rwlock = {}
    /\ mutex = Absent

InitParse ==
    /\ template \in Templates
    /\ cfg = Config_default
    /\ fm = <<>>
    /\ files = EmptyFs
    /\ archives = EmptyFs
    /\ archive_dir_exists = FALSE
    /\ now = T0
    /\ terminal = <<>>
    /\ last = Started
    /\ build = [overflow_checks |-> FALSE]
    /\ used = [logs |-> 0, ticks |-> 0, failed |-> FALSE]
    /\ IdleThreads

ParseSetLevelFormatting ==
    /\ last.op = "start"
    /\ \E l \in LevelSet : set_level_formatting(l, Flatten(template))

ParseSetFile ==
    /\ last.op = "start"
    /\ set_file(Flatten(template))

NextParse == ParseSetLevelFormatting \/ ParseSetFile

SpecParse == InitParse /\ [][NextParse]_vars

----------------------------------------------------------------------------
(* SpecRot: a program that installs a file manager, adds rotation rules    *)
(* and a compression, then logs at INFO while the clock advances and       *)
(* single I/O calls fail.                                                  *)

MaxRules == 2
MaxLogs == 3
MaxTicks == 1

\* the bytes of the message of every log call of the specification
MsgLen == 600

\* "a.log" and "a{time}.log"
RotTemplates == {<<"a", ".">> \o log_ext, <<"a">> \o Ph(time) \o <<".">> \o log_ext}

\* "1 MB", "1 hour", "0:05" and a string that is no rule
RuleStrings == {<<"1">> \o MB, <<"1">> \o hour, <<"0", ":", "0", "5">>, <<"x">>}

\* "zip" and a string that is no compression
CompressionStrings == {zip, <<"r", "a", "r">>}

\* the seconds the clock advances by in one step
TickSteps == {400, 3601}

\* the I/O failures one log call may meet: none, or one failing call; at most
\* one log call of a run meets one
IoChoices == {{}} \cup {{f} : f \in FailPoints \cup {"new_exists"}}

\* the manager the configuration points at
current_fm == fm[unwrap(cfg.file_manager)]

InitRot ==
    /\ template = <<>>
    /\ cfg = Config_default
    /\ fm = <<>>
    /\ files = EmptyFs
    /\ archives = EmptyFs
    /\ archive_dir_exists = FALSE
    /\ now = T0
    /\ terminal = <<>>
    /\ last = Started
    /\ build \in {[overflow_checks |-> b] : b \in BOOLEAN}
    /\ used = [logs |-> 0, ticks |-> 0, failed |-> FALSE]
    /\ IdleThreads

RotSetFile ==
    /\ cfg.file_manager = Absent
    /\ \E format \in RotTemplates : set_file(format)

RotAddRotation ==
    /\ cfg.file_manager # Absent
    /\ used.logs = 0 /\ used.ticks = 0
    /\ Len(current_fm.file_constraints.rotation) < MaxRules
    /\ \E constraint \in RuleStrings : add_rotation(constraint)

RotSetCompression ==
    /\ cfg.file_manager # Absent
    /\ used.logs = 0 /\ used.ticks = 0
    /\ \E ctype \in CompressionStrings : set_compression(ctype)

RotLog ==
    /\ cfg.file_manager # Absent
    /\ used.logs < MaxLogs
    /\ \E io \in IoChoices :
          /\ io # {} => ~used.failed
          /\ log("INFO", MsgLen, io)

RotTick ==
    /\ cfg.file_manager # Absent
    /\ used.ticks < MaxTicks
    /\ \E d \in TickSteps : Tick(d)

NextRot == RotSetFile \/ RotAddRotation \/ RotSetCompression \/ RotLog \/ RotTick

SpecRot == InitRot /\ [][NextRot]_vars

----------------------------------------------------------------------------
(* SpecLevel: log calls at every level against every threshold, with the   *)
(* terminal on or off and a file manager whose one rule comes due.         *)

MaxLevelLogs == 2
MaxLevelTicks == 1

\* no rule of the specification overflows, so one build is enough
InitLevel == InitRot /\ ~build.overflow_checks

LevelSetFile ==
    /\ cfg.file_manager = Absent
    /\ set_file(<<"a", ".">> \o log_ext)

LevelAddRotation ==
    /\ cfg.file_manager # Absent
    /\ current_fm.file_constraints.rotation = <<>>
    /\ add_rotation(<<"1">> \o hour)

LevelSetLogLevel ==
    /\ used.logs = 0 /\ used.ticks = 0
    /\ \E lvl \in LevelSet : lvl # cfg.level /\ set_log_level(lvl)

LevelSetPrintToTerminal ==
    /\ used.logs = 0 /\ used.ticks = 0
    /\ set_print_to_terminal(~cfg.print_to_terminal)

LevelLog ==
    /\ used.logs < MaxLevelLogs
    /\ \E lvl \in LevelSet : log(lvl, MsgLen, {})

LevelTick ==
    /\ used.ticks < MaxLevelTicks
    /\ \E d \in {d \in TickSteps : d > 60 * 60} : Tick(d)

NextLevel ==
    \/ LevelSetFile \/ LevelAddRotation \/ LevelSetLogLevel
    \/ LevelSetPrintToTerminal \/ LevelLog \/ LevelTick

SpecLevel == InitLevel /\ [][NextLevel]_vars

----------------------------------------------------------------------------
(* SpecConc: after set_print_to_terminal(false) and set_file,              *)
(* ConcThreads threads each issue ConcCalls log calls at INFO.  A call is  *)
(* split where another thread can run: before the manager's mutex is       *)
(* taken, and between the file operations that write_log makes while it is *)
(* held.  No rotation rule is installed.                                   *)

ConcThreads == 2
ConcCalls == 2

Threads == 1..ConcThreads

\* the message of the n-th call of thread t
ConcMess(t, n) == [id |-> (t - 1) * ConcCalls + n, len |-> MsgLen]

\* a mutant of lock_available: the mutex excludes nobody
lock_always_available(m) == TRUE

\* Mutex::lock in with_fm returns once no thread holds the mutex
lock_available(m) == m = Absent

InitConc ==
    /\ template = <<>>
    /\ cfg = Config_default
    /\ fm = <<>>
    /\ files = EmptyFs
    /\ archives = EmptyFs
    /\ archive_dir_exists = FALSE
    /\ now = T0
    /\ terminal = <<>>
    /\ last = Started
    /\ build = [overflow_checks |-> FALSE]
    /\ used = [logs |-> 0, ticks |-> 0, failed |-> FALSE]
    /\ pc = [t \in Threads |-> "idle"]
    /\ local = [t \in Threads |-> [n |-> 0, mess |-> <<>>]]
    /\ rwlock = {}
    /\ mutex = Absent

\* the main thread turns the terminal off and installs the file manager
\* before it spawns the threads
ConcSetPrintToTerminal ==
    /\ cfg.file_manager = Absent
    /\ cfg.print_to_terminal
    /\ set_print_to_terminal(FALSE)

ConcSetFile ==
    /\ cfg.file_manager = Absent
    /\ ~cfg.print_to_terminal
    /\ \E format \in RotTemplates : set_file(format)

\* macro_handler up to with_fm: the threshold test, print_log, and the line
\* write_file_log renders before it asks for the manager
ConcCall(t) ==
    LET mess == ConcMess(t, local[t].n + 1)
        log_info == [module_path |-> CallModule, file |-> CallFile, line |-> CallLine,
                     message |-> mess, level |-> "INFO"]
    IN  /\ cfg.file_manager # Absent
        /\ pc[t] = "idle"
        /\ local[t].n < ConcCalls
        /\ level_passes("INFO", cfg.level)
        /\ terminal' = IF cfg.print_to_terminal
                       THEN print_log(terminal, cfg, log_info, now) ELSE terminal
        /\ local' = [local EXCEPT ![t] = [n |-> @.n + 1,
                                          mess |-> string_log(cfg, log_info, FALSE, now)]]
        /\ pc' = [pc EXCEPT ![t] = "lock"]
        /\ UNCHANGED <<template, cfg, fm, files, archives, archive_dir_exists, now,
                       last, build, used, rwlock, mutex>>

\* with_fm: fm_arc.lock()
ConcLock(t) ==
    /\ pc[t] = "lock"
    /\ lock_available(mutex)
    /\ mutex' = Some(t)
    /\ pc' = [pc EXCEPT ![t] = "exists"]
    /\ UNCHANGED <<template, cfg, fm, files, archives, archive_dir_exists, now,
                   terminal, last, build, used, local, rwlock>>

\* verify_constraints: std::fs::exists on the current file
ConcExists(t) ==
    /\ pc[t] = "exists"
    /\ pc' = [pc EXCEPT ![t] =
                IF exists(files, get_full_file_name(current_fm.file_name))
                THEN "append" ELSE "create"]
    /\ UNCHANGED <<template, cfg, fm, files, archives, archive_dir_exists, now,
                   terminal, last, build, used, local, rwlock, mutex>>

\* verify_constraints: File::create when the file was not there; with no rule
\* the loop that follows changes nothing
ConcCreate(t) ==
    /\ pc[t] = "create"
    /\ files' = File_create(files, get_full_file_name(current_fm.file_name))
    /\ pc' = [pc EXCEPT ![t] = "append"]
    /\ UNCHANGED <<template, cfg, fm, archives, archive_dir_exists, now,
                   terminal, last, build, used, local, rwlock, mutex>>

\* write_to_file: the open and the first write of writeln!, the text
ConcWriteText(t) ==
    /\ pc[t] = "append"
    /\ files' = append_piece(files, get_full_file_name(current_fm.file_name),
                             TextPiece(local[t].mess))
    /\ pc' = [pc EXCEPT ![t] = "newline"]
    /\ UNCHANGED <<template, cfg, fm, archives, archive_dir_exists, now,
                   terminal, last, build, used, local, rwlock, mutex>>

\* write_to_file: the second write of writeln!, the newline; the guard of
\* the mutex is dropped on return
ConcWriteNewline(t) ==
    /\ pc[t] = "newline"
    /\ files' = append_piece(files, get_full_file_name(current_fm.file_name), NewLine)
    /\ mutex' = Absent
    /\ pc' = [pc EXCEPT ![t] = IF local[t].n = ConcCalls THEN "done" ELSE "idle"]
    /\ UNCHANGED <<template, cfg, fm, archives, archive_dir_exists, now,
                   terminal, last, build, used, local, rwlock>>

NextConc ==
    \/ ConcSetPrintToTerminal
    \/ ConcSetFile
    \/ \E t \in Threads :
          \/ ConcCall(t) \/ ConcLock(t) \/ ConcExists(t)
          \/ ConcCreate(t) \/ ConcWriteText(t) \/ ConcWriteNewline(t)

SpecConc == InitConc /\ [][NextConc]_vars

----------------------------------------------------------------------------
(* SpecUnits: one add_rotation call on a number followed by a unit, on a   *)
(* fresh file manager, in both builds.                                     *)

\* the numbers of the rule texts
UnitNumbers == {1, 5, 23, 137}

SizeUnits == <<KB, MB, GB, TB>>

PeriodUnits == {hour, day, week, month, year}

\* "<n> <unit>" for every number and unit whose rule the model's integers
\* can hold: of the TB rules, "1 TB" only
UnitTexts ==
    {to_string(n) \o u : n \in UnitNumbers, u \in {KB, MB, GB} \cup PeriodUnits}
    \cup {to_string(1) \o TB}

InitUnits ==
    /\ template \in UnitTexts
    /\ cfg = Config_default
    /\ fm = <<>>
    /\ files = EmptyFs
    /\ archives = EmptyFs
    /\ archive_dir_exists = FALSE
    /\ now = T0
    /\ terminal = <<>>
    /\ last = Started
    /\ build \in {[overflow_checks |-> b] : b \in BOOLEAN}
    /\ used = [logs |-> 0, ticks |-> 0, failed |-> FALSE]
    /\ IdleThreads

UnitsSetFile ==
    /\ cfg.file_manager = Absent
    /\ set_file(<<"a", ".">> \o log_ext)

UnitsAddRotation ==
    /\ cfg.file_manager # Absent
    /\ last.op = "set_file"
    /\ add_rotation(template)

NextUnits == UnitsSetFile \/ UnitsAddRotation

SpecUnits == InitUnits /\ [][NextUnits]_vars

----------------------------------------------------------------------------
(* SpecSetters: the setters called in any order with accepted and rejected *)
(* arguments, with and without a file manager installed.                   *)

\* the managers one run may install
MaxManagers == 2

\* the rules one manager may collect
MaxSetterRules == 2

\* "a.log", "b.txt", and a rejected template: "a.csv"
SetterTemplates ==
    {<<"a", ".">> \o log_ext, <<"b", ".">> \o txt, <<"a", ".", "c", "s", "v">>}

\* "invalid", "", "dfsa week"
NoRuleStrings ==
    {<<"i", "n", "v", "a", "l", "i", "d">>, <<>>, <<"d", "f", "s", "a">> \o week}

\* "1 MB", "1 hour", and the strings that are no rule
SetterRules == {<<"1">> \o MB, <<"1">> \o hour} \cup NoRuleStrings

\* "zip", "rar", ""
SetterCompressions == {zip, <<"r", "a", "r">>, <<>>}

\* "{message}", and a rejected format: "<red>x"
SetterFormats == {Ph(message), Tag(red) \o <<"x">>}

\* "arch"
SetterDirs == {<<"a", "r", "c", "h">>}

\* the build with overflow checks; no rule of SetterRules overflows
InitSetters == InitRot /\ build.overflow_checks

\* the configuration still has its default formatters and no archive folder
Untouched ==
    /\ cfg.formats = Config_default.formats
    /\ cfg.archive_dir = Absent
    /\ fm = <<>>

SettersInit ==
    /\ cfg.file_manager # Absent
    /\ init

SettersSetLogLevel ==
    /\ Untouched
    /\ cfg.level = "INFO"
    /\ set_log_level("WARN")

SettersSetLevelFormatting ==
    \E format \in SetterFormats :
        /\ parse_from_string(format).ok => cfg.formats["INFO"] = LogFormatter_default
        /\ set_level_formatting("INFO", format)

SettersSetGlobalFormatting ==
    \E format \in SetterFormats :
        /\ parse_from_string(format).ok => cfg.formats = Config_default.formats
        /\ set_global_formatting(format)

SettersSetFile ==
    /\ Len(fm) < MaxManagers
    /\ \E format \in SetterTemplates : set_file(format)

SettersSetArchiveDir ==
    \E dir \in SetterDirs, fails \in BOOLEAN : set_archive_dir(dir, fails)

\* rules and compression are given to the first manager of a run
SettersAddRotation ==
    \E constraint \in SetterRules :
        /\ cfg.file_manager # Absent /\ RotationType_try_from_string(constraint).ok =>
              /\ Len(fm) = 1
              /\ Len(current_fm.file_constraints.rotation) < MaxSetterRules
        /\ add_rotation(constraint)

SettersSetCompression ==
    \E ctype \in SetterCompressions :
        /\ cfg.file_manager # Absent /\ ctype = zip => Len(fm) = 1
        /\ set_compression(ctype)

NextSetters ==
    \/ SettersInit
    \/ SettersSetLogLevel
    \/ SettersSetLevelFormatting
    \/ SettersSetGlobalFormatting
    \/ SettersSetFile
    \/ SettersSetArchiveDir
    \/ SettersAddRotation
    \/ SettersSetCompression

SpecSetters == InitSetters /\ [][NextSetters]_vars

----------------------------------------------------------------------------
(* SpecLoad: a configuration is set up by the setters, then one            *)
(* configuration file is loaded.                                           *)

\* the rules the manager holds before the file is loaded
MaxLoadRules == 1

NoLevelFormatting == [l \in LevelSet |-> Absent]

\* the parsed configuration files: every combination of an absent, an
\* accepted and a rejected value of the fields, and one disabled file
InterConfigs ==
    {InterConfig(Absent, lvl, Absent, Absent, global_formatting, NoLevelFormatting,
                 file_name, compression, rotations, archive_dir) :
        lvl \in {Absent, Some("WARN")},
        global_formatting \in {Absent} \cup {Some(f) : f \in SetterFormats},
        file_name \in {Absent, Some(<<"b", ".">> \o txt), Some(<<"a", ".", "c", "s", "v">>)},
        compression \in {Absent, Some(zip), Some(<<"r", "a", "r">>)},
        rotations \in {Absent, Some(<<<<"1">> \o hour>>),
                       Some(<<<<"1">> \o hour, <<"i", "n", "v", "a", "l", "i", "d">>>>)},
        archive_dir \in {Absent} \cup {Some(d) : d \in SetterDirs}}
    \cup {InterConfig(Some(FALSE), Some("WARN"), Some(FALSE), Some(TRUE), Absent,
                      [NoLevelFormatting EXCEPT !["ERROR"] = Some(Ph(message))],
                      Absent, Absent, Absent, Absent),
          InterConfig(Some(TRUE), Some("WARN"), Some(FALSE), Some(TRUE), Absent,
                      [NoLevelFormatting EXCEPT !["ERROR"] = Some(Ph(message))],
                      Absent, Some(zip), Absent, Absent)}

InitLoad == InitRot /\ build.overflow_checks

Loaded == last.op = "load_config_from_file"

LoadSetFile ==
    /\ ~Loaded
    /\ cfg.file_manager = Absent
    /\ set_file(<<"a", ".">> \o log_ext)

LoadAddRotation ==
    /\ ~Loaded
    /\ cfg.file_manager # Absent
    /\ Len(current_fm.file_constraints.rotation) < MaxLoadRules
    /\ add_rotation(<<"1">> \o MB)

LoadSetLevelFormatting ==
    /\ ~Loaded
    /\ cfg.formats["INFO"] = LogFormatter_default
    /\ set_level_formatting("INFO", Tag(red) \o <<"x">> \o Tag(red))

LoadConfigFromFile ==
    /\ ~Loaded
    /\ \E ic \in InterConfigs, dir_fails \in BOOLEAN : load_config_from_file(ic, dir_fails)

NextLoad == LoadSetFile \/ LoadAddRotation \/ LoadSetLevelFormatting \/ LoadConfigFromFile

SpecLoad == InitLoad /\ [][NextLoad]_vars

----------------------------------------------------------------------------
(* SpecArchive: an archive directory is configured, then a manager with    *)
(* zip compression rotates.                                                *)

\* the log calls of one run
MaxArchiveLogs == 3

\* the steps of the clock in one run
MaxArchiveTicks == 1

\* "arch", "old"
ArchiveDirs == {<<"a", "r", "c", "h">>, <<"o", "l", "d">>}

InitArchive == InitRot /\ ~build.overflow_checks

ArchiveSetArchiveDir ==
    /\ used.logs = 0
    /\ \E dir \in ArchiveDirs : dir # unwrap_or(cfg.archive_dir, <<>>) /\ set_archive_dir(dir, FALSE)

ArchiveSetFile ==
    /\ cfg.file_manager = Absent
    /\ \E format \in RotTemplates : set_file(format)

ArchiveAddRotation ==
    /\ cfg.file_manager # Absent
    /\ used.logs = 0 /\ used.ticks = 0
    /\ current_fm.file_constraints.rotation = <<>>
    /\ \E constraint \in {<<"1">> \o MB, <<"1">> \o hour} : add_rotation(constraint)

ArchiveSetCompression ==
    /\ cfg.file_manager # Absent
    /\ used.logs = 0 /\ used.ticks = 0
    /\ current_fm.file_constraints.compression = None
    /\ set_compression(zip)

ArchiveLog ==
    /\ cfg.file_manager # Absent
    /\ used.logs < MaxArchiveLogs
    /\ log("INFO", MsgLen, {})

ArchiveTick ==
    /\ cfg.file_manager # Absent
    /\ used.ticks < MaxArchiveTicks
    /\ \E d \in TickSteps : Tick(d)

NextArchive ==
    \/ ArchiveSetArchiveDir
    \/ ArchiveSetFile
    \/ ArchiveAddRotation
    \/ ArchiveSetCompression
    \/ ArchiveLog
    \/ ArchiveTick

SpecArchive == InitArchive /\ [][NextArchive]_vars

----------------------------------------------------------------------------
(* SpecInit: every field of the configuration is changed by its setter, in *)
(* any order, and init is called in between.                               *)

\* the managers one run installs, one after each init
MaxInits == 2

InitInit == InitRot /\ build.overflow_checks

InitSetLogLevel ==
    /\ cfg.level = "INFO"
    /\ set_log_level("ERROR")

InitSetPrintToTerminal ==
    /\ cfg.print_to_terminal
    /\ set_print_to_terminal(FALSE)

InitSetColorized ==
    /\ ~cfg.colorized
    /\ set_colorized(TRUE)

InitSetGlobalFormatting ==
    /\ cfg.formats["ERROR"] # parse_from_string(Ph(message)).val
    /\ set_global_formatting(Ph(message))

InitSetFile ==
    /\ cfg.file_manager = Absent
    /\ Len(fm) < MaxInits
    /\ set_file(<<"a", ".">> \o log_ext)

InitSetArchiveDir ==
    /\ cfg.archive_dir = Absent
    /\ \E dir \in SetterDirs : set_archive_dir(dir, FALSE)

InitAddRotation ==
    /\ cfg.file_manager # Absent
    /\ current_fm.file_constraints.rotation = <<>>
    /\ add_rotation(<<"1">> \o hour)

InitCallInit ==
    /\ last.op # "init"
    /\ init

NextInit ==
    \/ InitSetLogLevel
    \/ InitSetPrintToTerminal
    \/ InitSetColorized
    \/ InitSetGlobalFormatting
    \/ InitSetFile
    \/ InitSetArchiveDir
    \/ InitAddRotation
    \/ InitCallInit

SpecInit == InitInit /\ [][NextInit]_vars

----------------------------------------------------------------------------
(* SpecLocks: the locks of a log call and of the setters, one lock         *)
(* operation per step.  The main thread installs a manager with a size     *)
(* rule and logs; then LockLoggers threads make one log call each while    *)
(* another thread calls set_log_level and add_rotation.                    *)

LockLoggers == 2

\* the log calls of the main thread before the threads start
MaxSetupLogs == 2

Loggers == 1..LockLoggers
SetterThread == LockLoggers + 1
LockThreads == 1..(LockLoggers + 1)

Instr(op, site) == [op |-> op, site |-> site]

\* the lock operations of macro_handler, log_handler, print_log, string_log
\* and write_file_log up to the call of with_fm; a guard that is a temporary
\* lives to the end of its statement
LogCallReads ==
    <<Instr("read_lock", "get_log_level"), Instr("read_unlock", "get_log_level"),
      Instr("read_lock", "print_to_terminal"), Instr("read_unlock", "print_to_terminal"),
      Instr("read_lock", "colorized"),
      Instr("read_lock", "get_log_format"), Instr("read_unlock", "get_log_format"),
      Instr("read_unlock", "colorized"),
      Instr("print", "print_log"),
      Instr("read_lock", "file_manager"), Instr("read_unlock", "file_manager"),
      Instr("read_lock", "line"), Instr("read_unlock", "line"),
      Instr("read_lock", "cfg_snapshot"), Instr("read_unlock", "cfg_snapshot")>>

\* a mutant of LogProgram: with_fm keeps its read guard until the closure
\* has returned
LogProgramHoldingGuard ==
    LogCallReads \o
    <<Instr("read_lock", "with_fm"),
      Instr("mutex_lock", "with_fm"),
      Instr("verify", "write_log"), Instr("append", "write_log"),
      Instr("mutex_unlock", "with_fm"),
      Instr("read_unlock", "with_fm")>>

\* a mutant of LogProgram: the mutex is released after the rotation check
LogProgramUnlockingEarly ==
    LogCallReads \o
    <<Instr("read_lock", "with_fm"), Instr("read_unlock", "with_fm"),
      Instr("mutex_lock", "with_fm"),
      Instr("verify", "write_log"),
      Instr("mutex_unlock", "with_fm"),
      Instr("append", "write_log")>>

\* one log call: the reads of the configuration, then with_fm: the handle
\* is cloned under a read guard, the guard is dropped, the mutex is locked,
\* write_log runs, the mutex is unlocked
LogProgram ==
    LogCallReads \o
    <<Instr("read_lock", "with_fm"), Instr("read_unlock", "with_fm"),
      Instr("mutex_lock", "with_fm"),
      Instr("verify", "write_log"), Instr("append", "write_log"),
      Instr("mutex_unlock", "with_fm")>>

\* set_log_level(DEBUG), then add_rotation("1 hour")
SetterProgram ==
    <<Instr("write_request", "set_log_level"), Instr("write_lock", "set_log_level"),
      Instr("write_unlock", "set_log_level"),
      Instr("read_lock", "with_fm"), Instr("read_unlock", "with_fm"),
      Instr("mutex_lock", "with_fm"),
      Instr("add_rule", "add_rotation"),
      Instr("mutex_unlock", "with_fm")>>

Program(t) == IF t \in Loggers THEN LogProgram ELSE SetterProgram

Finished(t) == pc[t] > Len(Program(t))

\* the instruction thread t is at
At(t) == IF pc[t] = 0 \/ Finished(t) THEN Instr("none", "none") ELSE Program(t)[pc[t]]

\* the place of the first instruction op at site in the program of t
PlaceOf(t, op, site) ==
    CHOOSE i \in 1..Len(Program(t)) :
        /\ Program(t)[i] = Instr(op, site)
        /\ \A j \in 1..(i - 1) : Program(t)[j] # Instr(op, site)

ReadGuards(t) == {g \in rwlock : g.kind = "read" /\ g.t = t}

Writers == {g \in rwlock : g.kind = "write"}

WaitingWriters == {g \in rwlock : g.kind = "waiting"}

Guard(kind, t, depth) == [kind |-> kind, t |-> t, depth |-> depth]

LockMess(t) == [id |-> MaxSetupLogs + t, len |-> MsgLen]

LockLogInfo(t) ==
    [module_path |-> CallModule, file |-> CallFile, line |-> CallLine,
     message |-> LockMess(t), level |-> "INFO"]

InitLocks ==
    /\ template = <<>>
    /\ cfg = Config_default
    /\ fm = <<>>
    /\ files = EmptyFs
    /\ archives = EmptyFs
    /\ archive_dir_exists = FALSE
    /\ now = T0
    /\ terminal = <<>>
    /\ last = Started
    /\ build \in {[overflow_checks |-> FALSE, writers_first |-> b] : b \in BOOLEAN}
    /\ used = [logs |-> 0, ticks |-> 0, failed |-> FALSE]
    /\ pc = [t \in LockThreads |-> 0]
    /\ local = [t \in LockThreads |->
                  [level |-> "INFO", print |-> TRUE, has_fm |-> FALSE, mess |-> <<>>,
                   snapshot |-> "INFO", h |-> Absent, seen |-> EmptyFs]]
    /\ rwlock = {}
    /\ mutex = Absent

NotSpawned == \A t \in LockThreads : pc[t] = 0

LocksSetFile ==
    /\ NotSpawned
    /\ cfg.file_manager = Absent
    /\ set_file(<<"a", ".">> \o log_ext)

LocksAddRotation ==
    /\ NotSpawned
    /\ cfg.file_manager # Absent
    /\ current_fm.file_constraints.rotation = <<>>
    /\ used.logs = 0
    /\ add_rotation(<<"1">> \o MB)

LocksLog ==
    /\ NotSpawned
    /\ cfg.file_manager # Absent
    /\ current_fm.file_constraints.rotation # <<>>
    /\ used.logs < MaxSetupLogs
    /\ log("INFO", MsgLen, {})

\* std::thread::spawn: the thread starts its first call
LocksSpawn(t) ==
    /\ pc[t] = 0
    /\ used.logs = MaxSetupLogs
    /\ pc' = [pc EXCEPT ![t] = 1]
    /\ UNCHANGED <<template, cfg, fm, files, archives, archive_dir_exists, now,
                   terminal, last, build, used, local, rwlock, mutex>>

\* what the thread keeps of the configuration it reads under the guard
ReadAt(t, site) ==
    CASE site = "get_log_level" -> [local[t] EXCEPT !.level = cfg.level]
      [] site = "print_to_terminal" -> [local[t] EXCEPT !.print = cfg.print_to_terminal]
      [] site = "file_manager" -> [local[t] EXCEPT !.has_fm = cfg.file_manager # Absent]
      [] site = "line" ->
            [local[t] EXCEPT !.mess = string_log(cfg, LockLogInfo(t), FALSE, now)]
      [] site = "cfg_snapshot" -> [local[t] EXCEPT !.snapshot = cfg.level]
      [] site = "with_fm" -> [local[t] EXCEPT !.h = cfg.file_manager]
      [] OTHER -> local[t]

\* where the thread goes on after the guard taken at site is dropped
AfterRead(t, site) ==
    CASE site = "get_log_level" /\ ~level_passes("INFO", local[t].level) ->
            Len(Program(t)) + 1
      [] site = "print_to_terminal" /\ ~local[t].print ->
            PlaceOf(t, "read_lock", "file_manager")
      [] site = "file_manager" /\ ~local[t].has_fm -> Len(Program(t)) + 1
      [] site = "with_fm" /\ local[t].h = Absent -> Len(Program(t)) + 1
      [] OTHER -> pc[t] + 1

\* RwLock::read returns when no writer holds the lock and, in a build whose
\* lock lets writers go first, no writer waits
read_available(lock, writers_first) ==
    /\ {g \in lock : g.kind = "write"} = {}
    /\ writers_first => {g \in lock : g.kind = "waiting"} = {}

\* CONFIG.read()
LocksReadLock(t) ==
    /\ At(t).op = "read_lock"
    /\ read_available(rwlock, build.writers_first)
    /\ rwlock' = rwlock \cup {Guard("read", t, Cardinality(ReadGuards(t)) + 1)}
    /\ local' = [local EXCEPT ![t] = ReadAt(t, At(t).site)]
    /\ pc' = [pc EXCEPT ![t] = @ + 1]
    /\ UNCHANGED <<template, cfg, fm, files, archives, archive_dir_exists, now,
                   terminal, last, build, used, mutex>>

\* the read guard taken last is dropped
LocksReadUnlock(t) ==
    /\ At(t).op = "read_unlock"
    /\ rwlock' = rwlock \ {Guard("read", t, Cardinality(ReadGuards(t)))}
    /\ pc' = [pc EXCEPT ![t] = AfterRead(t, At(t).site)]
    /\ UNCHANGED <<template, cfg, fm, files, archives, archive_dir_exists, now,
                   terminal, last, build, used, local, mutex>>

\* println! of print_log
LocksPrint(t) ==
    /\ At(t).op = "print"
    /\ terminal' = print_log(terminal, cfg, LockLogInfo(t), now)
    /\ pc' = [pc EXCEPT ![t] = @ + 1]
    /\ UNCHANGED <<template, cfg, fm, files, archives, archive_dir_exists, now,
                   last, build, used, local, rwlock, mutex>>

\* CONFIG.write() is called: the thread waits for the lock
LocksWriteRequest(t) ==
    /\ At(t).op = "write_request"
    /\ rwlock' = rwlock \cup {Guard("waiting", t, 0)}
    /\ pc' = [pc EXCEPT ![t] = @ + 1]
    /\ UNCHANGED <<template, cfg, fm, files, archives, archive_dir_exists, now,
                   terminal, last, build, used, local, mutex>>

\* CONFIG.write() returns: nobody reads, nobody writes
LocksWriteLock(t) ==
    /\ At(t).op = "write_lock"
    /\ {g \in rwlock : g.kind \in {"read", "write"}} = {}
    /\ rwlock' = (rwlock \ {Guard("waiting", t, 0)}) \cup {Guard("write", t, 0)}
    /\ pc' = [pc EXCEPT ![t] = @ + 1]
    /\ UNCHANGED <<template, cfg, fm, files, archives, archive_dir_exists, now,
                   terminal, last, build, used, local, mutex>>

\* set_log_level: the assignment, and the write guard dropped on return
LocksWriteUnlock(t) ==
    /\ At(t).op = "write_unlock"
    /\ cfg' = set_log_level_on(Store, "DEBUG").st.cfg
    /\ rwlock' = rwlock \ {Guard("write", t, 0)}
    /\ pc' = [pc EXCEPT ![t] = @ + 1]
    /\ UNCHANGED <<template, fm, files, archives, archive_dir_exists, now,
                   terminal, last, build, used, local, mutex>>

\* with_fm: fm_arc.lock()
LocksMutexLock(t) ==
    /\ At(t).op = "mutex_lock"
    /\ lock_available(mutex)
    /\ mutex' = Some(t)
    /\ pc' = [pc EXCEPT ![t] = @ + 1]
    /\ UNCHANGED <<template, cfg, fm, files, archives, archive_dir_exists, now,
                   terminal, last, build, used, local, rwlock>>

\* write_log: verify_constraints on the manager behind the cloned handle
LocksVerify(t) ==
    /\ At(t).op = "verify"
    /\ \E r \in {verify_constraints(World(fm[unwrap(local[t].h)], files, archives,
                                          archive_dir_exists),
                                    local[t].snapshot, now, {}, build.overflow_checks)} :
          /\ fm' = [fm EXCEPT ![unwrap(local[t].h)] = manager_of(r.w)]
          /\ files' = r.w.files
          /\ archives' = r.w.archives
          /\ archive_dir_exists' = r.w.archive_dir_exists
          /\ local' = [local EXCEPT ![t].seen = r.w.files]
    /\ pc' = [pc EXCEPT ![t] = @ + 1]
    /\ UNCHANGED <<template, cfg, now, terminal, last, build, used, rwlock, mutex>>

\* write_log: write_to_file on the name the manager has
LocksAppend(t) ==
    /\ At(t).op = "append"
    /\ files' = write_to_file(files, get_full_file_name(fm[unwrap(local[t].h)].file_name),
                              local[t].mess)
    /\ pc' = [pc EXCEPT ![t] = @ + 1]
    /\ UNCHANGED <<template, cfg, fm, archives, archive_dir_exists, now,
                   terminal, last, build, used, local, rwlock, mutex>>

\* add_rotation: FileManager::add_rotation("1 hour") under the mutex
LocksAddRule(t) ==
    /\ At(t).op = "add_rule"
    /\ fm' = [fm EXCEPT ![unwrap(local[t].h)] =
                FileManager_add_rotation(@, <<"1">> \o hour, now).m]
    /\ pc' = [pc EXCEPT ![t] = @ + 1]
    /\ UNCHANGED <<template, cfg, files, archives, archive_dir_exists, now,
                   terminal, last, build, used, local, rwlock, mutex>>

\* with_fm returns: the guard of the mutex is dropped
LocksMutexUnlock(t) ==
    /\ At(t).op = "mutex_unlock"
    /\ mutex' = Absent
    /\ pc' = [pc EXCEPT ![t] = @ + 1]
    /\ UNCHANGED <<template, cfg, fm, files, archives, archive_dir_exists, now,
                   terminal, last, build, used, local, rwlock>>

NextLocks ==
    \/ LocksSetFile
    \/ LocksAddRotation
    \/ LocksLog
    \/ \E t \in LockThreads :
          \/ LocksSpawn(t) \/ LocksReadLock(t) \/ LocksReadUnlock(t) \/ LocksPrint(t)
          \/ LocksWriteRequest(t) \/ LocksWriteLock(t) \/ LocksWriteUnlock(t)
          \/ LocksMutexLock(t) \/ LocksVerify(t) \/ LocksAppend(t)
          \/ LocksAddRule(t) \/ LocksMutexUnlock(t)

SpecLocks == InitLocks /\ [][NextLocks]_vars

----------------------------------------------------------------------------
(* SpecClock: add_rotation("h:m") for every hour and minute, at three      *)
(* instants of a day, in both builds.                                      *)

ClockHours == 0..23
ClockMinutes == 0..59

TimeText(h, m) == to_string(h) \o <<":">> \o to_string(m)

\* 00:00:30, 12:30:15 and 23:59:59 of the first day
ClockInstants == {T0, 12 * 3600 + 30 * 60 + 15, SECONDS_IN_DAY - 1}

InitClock ==
    /\ template \in {TimeText(h, m) : h \in ClockHours, m \in ClockMinutes}
    /\ cfg = Config_default
    /\ fm = <<>>
    /\ files = EmptyFs
    /\ archives = EmptyFs
    /\ archive_dir_exists = FALSE
    /\ now \in ClockInstants
    /\ terminal = <<>>
    /\ last = Started
    /\ build \in {[overflow_checks |-> b] : b \in BOOLEAN}
    /\ used = [logs |-> 0, ticks |-> 0, failed |-> FALSE]
    /\ IdleThreads

ClockSetFile ==
    /\ cfg.file_manager = Absent
    /\ set_file(<<"a", ".">> \o log_ext)

ClockAddRotation ==
    /\ cfg.file_manager # Absent
    /\ last.op = "set_file"
    /\ add_rotation(template)

NextClock == ClockSetFile \/ ClockAddRotation

SpecClock == InitClock /\ [][NextClock]_vars

----------------------------------------------------------------------------
(* SpecScan: managers with zero to MaxScanRules rules, of which the hourly *)
(* rule and the size rule fire and the two-hourly rule does not, so that   *)
(* the rule that fires first is at every position of the list.             *)

MaxScanRules == 3
MaxScanLogs == 2
MaxScanTicks == 1

ScanRules == {<<"1">> \o hour, <<"2">> \o hour, <<"1">> \o MB}

ScanSetFile ==
    /\ cfg.file_manager = Absent
    /\ set_file(<<"a", ".">> \o log_ext)

ScanAddRotation ==
    /\ cfg.file_manager # Absent
    /\ used.logs = 0 /\ used.ticks = 0
    /\ Len(current_fm.file_constraints.rotation) < MaxScanRules
    /\ \E constraint \in ScanRules : add_rotation(constraint)

ScanLog ==
    /\ cfg.file_manager # Absent
    /\ used.logs < MaxScanLogs
    /\ log("INFO", MsgLen, {})

ScanTick ==
    /\ cfg.file_manager # Absent
    /\ used.ticks < MaxScanTicks
    /\ Tick(3601)

NextScan == ScanSetFile \/ ScanAddRotation \/ ScanLog \/ ScanTick

SpecScan == InitRot /\ [][NextScan]_vars

----------------------------------------------------------------------------
(* SpecCreate: FileManager::create_new_file called again and again on one  *)
(* manager, on a disk that may hold files of earlier runs.                 *)

MaxCreates == 3
MaxCreateTicks == 1

\* the files an earlier run may have left: a.log and a(1).log
LeftOver == {<<"a", ".">> \o log_ext, <<"a", "(", "1", ")", ".">> \o log_ext}

\* a file with one line in it
OldContent == <<TextPiece([id |-> 0, len |-> 1]), NewLine>>

InitCreate ==
    /\ template = <<>>
    /\ cfg = Config_default
    /\ fm = <<>>
    /\ files \in {[q \in S |-> OldContent] : S \in SUBSET LeftOver}
    /\ archives = EmptyFs
    /\ archive_dir_exists = FALSE
    /\ now = T0
    /\ terminal = <<>>
    /\ last = Started
    /\ build \in {[overflow_checks |-> b] : b \in BOOLEAN}
    /\ used = [logs |-> 0, ticks |-> 0, failed |-> FALSE]
    /\ IdleThreads

\* fm.create_new_file(&config) on the installed manager
create_new_file_call(io) ==
    \E r \in {create_new_file(World(current_fm, files, archives, archive_dir_exists),
                              cfg.level, now, io)} :
        /\ fm' = [fm EXCEPT ![unwrap(cfg.file_manager)] = manager_of(r.w)]
        /\ files' = r.w.files
        /\ used' = [used EXCEPT !.logs = @ + 1, !.failed = @ \/ io # {}]
        /\ last' = Call("create_new_file", io, IF r.res.ok THEN "Ok" ELSE r.res.err,
                        [n_created |-> r.w.n_created])
        /\ UNCHANGED <<template, cfg, archives, archive_dir_exists, now, terminal,
                       build, ThreadVars>>

\* "a.log", "a{time}.log", and a rejected template: "a.csv"
CreateTemplates == RotTemplates \cup {<<"a", ".", "c", "s", "v">>}

CreateSetFile ==
    /\ cfg.file_manager = Absent
    /\ \E format \in CreateTemplates : set_file(format)

CreateNewFile ==
    /\ cfg.file_manager # Absent
    /\ used.logs < MaxCreates
    /\ \E io \in {{}, {"new_exists"}, {"new_create"}} : create_new_file_call(io)

CreateTick ==
    /\ cfg.file_manager # Absent
    /\ used.ticks < MaxCreateTicks
    /\ Tick(1)

NextCreate == CreateSetFile \/ CreateNewFile \/ CreateTick

SpecCreate == InitCreate /\ [][NextCreate]_vars

----------------------------------------------------------------------------
(* SpecColor: log calls to the terminal and to a file with the colorized   *)
(* flag on or off and formats with and without colour regions.             *)

MaxColorLogs == 2

\* "{message}" and "<red>{message}<red> x"
ColorFormats == {Ph(message), Tag(red) \o Ph(message) \o Tag(red) \o <<" ", "x">>}

InitColor == InitRot /\ ~build.overflow_checks

ColorSetFile ==
    /\ cfg.file_manager = Absent
    /\ set_file(<<"a", ".">> \o log_ext)

ColorSetColorized ==
    /\ used.logs < MaxColorLogs
    /\ set_colorized(~cfg.colorized)

ColorSetLevelFormatting ==
    /\ used.logs < MaxColorLogs
    /\ \E format \in ColorFormats :
          /\ cfg.formats["INFO"] # parse_from_string(format).val
          /\ set_level_formatting("INFO", format)

ColorLog ==
    /\ used.logs < MaxColorLogs
    /\ \E lvl \in {"INFO", "ERROR"} : log(lvl, MsgLen, {})

NextColor == ColorSetFile \/ ColorSetColorized \/ ColorSetLevelFormatting \/ ColorLog

SpecColor == InitColor /\ [][NextColor]_vars

----------------------------------------------------------------------------
(* SpecYmd: seconds_to_ymdhms on instants of 1970 to 1974, around the end  *)
(* of February 2000 and 2100 and at the end of the 32-bit range.  An       *)
(* instant is drawn as its whole days and the seconds of its last day, the *)
(* two numbers the function starts with; instants within the 32-bit range  *)
(* are converted from their seconds.                                       *)

\* 1970-01-01 to 1974-02-08
FirstDays == 0..1499

\* 2000-02-27 to 2000-03-02, 2100-02-27 to 2100-03-02, 2038-01-18 to -20
TurnDays == (11014..11018) \cup (47539..47543) \cup (24853..24855)

\* 00:00:00, 01:01:01, 23:59:59
DaySeconds == {0, 3661, SECONDS_IN_DAY - 1}

\* the days before this one have second counts that fit 31 bits
PlainDays == 2147483647 \div SECONDS_IN_DAY

InitYmd ==
    /\ template \in {<<d, r>> : d \in FirstDays \cup TurnDays, r \in DaySeconds}
    /\ cfg = Config_default
    /\ fm = <<>>
    /\ files = EmptyFs
    /\ archives = EmptyFs
    /\ archive_dir_exists = FALSE
    /\ now = T0
    /\ terminal = <<>>
    /\ last = Started
    /\ build \in {[overflow_checks |-> b] : b \in BOOLEAN}
    /\ used = [logs |-> 0, ticks |-> 0, failed |-> FALSE]
    /\ IdleThreads

\* helper::seconds_to_ymdhms(template[1] * 86400 + template[2])
YmdConvert ==
    /\ last.op = "start"
    /\ last' = Call("seconds_to_ymdhms", template, "Ok",
                    IF template[1] < PlainDays
                    THEN seconds_to_ymdhms(template[1] * SECONDS_IN_DAY + template[2])
                    ELSE ymdhms_of(template[1], template[2]))
    /\ UNCHANGED <<template, cfg, fm, files, archives, archive_dir_exists, now,
                   terminal, build, used, ThreadVars>>

NextYmd == YmdConvert

SpecYmd == InitYmd /\ [][NextYmd]_vars

----------------------------------------------------------------------------
(* Templates as their characters, read without the compiler: what the      *)
(* properties of the template compiler are stated on.                      *)

IsDelimiter(c) == c \in {"{", "}", "<", ">"}

\* s[i] = open, s[j] = close, and only literal characters in between
Encloses(s, i, j, open, close) ==
    /\ i < j
    /\ s[i] = open
    /\ s[j] = close
    /\ \A k \in (i + 1)..(j - 1) : ~IsDelimiter(s[k])

\* the names of the placeholders {name} of s
PlaceholderNames(s) ==
    {SubSeq(s, p[1] + 1, p[2] - 1) :
        p \in {q \in (1..Len(s)) \X (1..Len(s)) : Encloses(s, q[1], q[2], "{", "}")}}

\* the placeholder names of the log templates
KnownPlaceholders == {message, time, date, file, line, level, module}

\* the name of the tag <name> that starts at i (empty if none does)
TagNameAt(s, i) ==
    IF \E j \in 1..Len(s) : Encloses(s, i, j, "<", ">")
    THEN SubSeq(s, i + 1, (CHOOSE j \in 1..Len(s) : Encloses(s, i, j, "<", ">")) - 1)
    ELSE <<>>

\* where the colour tags of s start
ColorTagStarts(s) == {i \in 1..Len(s) : TagNameAt(s, i) \in get_colors_str}

\* the colour names of the tags of s, in order
ColorTags(s) ==
    [k \in 1..Cardinality(ColorTagStarts(s)) |->
        TagNameAt(s, CHOOSE i \in ColorTagStarts(s) :
                        Cardinality({x \in ColorTagStarts(s) : x <= i}) = k)]

\* reading the tags by name: a tag opens its colour when none is open, closes
\* the open colour when it has the same name, and is a mismatch otherwise
RECURSIVE WalkTags(_, _)
WalkTags(tags, open) ==
    IF tags = <<>> THEN open
    ELSE IF open = None THEN WalkTags(Tail(tags), Head(tags))
    ELSE IF Head(tags) = open THEN WalkTags(Tail(tags), None)
    ELSE "Mismatch"

HasColorMismatch(s) == WalkTags(ColorTags(s), None) = "Mismatch"

\* a { or < that is not followed by one literal run and its closer
HasMalformedOpener(s) ==
    \E i \in 1..Len(s) :
        \/ s[i] = "{" /\ ~\E j \in (i + 2)..Len(s) : Encloses(s, i, j, "{", "}")
        \/ s[i] = "<" /\ ~\E j \in (i + 2)..Len(s) : Encloses(s, i, j, "<", ">")

\* a } or > that closes nothing
HasStrayCloser(s) ==
    \E j \in 1..Len(s) :
        \/ s[j] = "}" /\ ~\E i \in 1..Len(s) : Encloses(s, i, j, "{", "}")
        \/ s[j] = ">" /\ ~\E i \in 1..Len(s) : Encloses(s, i, j, "<", ">")

\* the colour tags do not pair up: one is left open at the end
EndsWithOpenColor(s) == Cardinality(ColorTagStarts(s)) % 2 = 1

\* the last segment of s is a literal with a "." followed by txt or log
EndsWithLogExtension(s) ==
    \E d \in 1..Len(s) :
        /\ s[d] = "."
        /\ \A k \in d..Len(s) : ~IsDelimiter(s[k])
        /\ \A k \in (d + 1)..Len(s) : s[k] # "."
        /\ SubSeq(s, d + 1, Len(s)) \in {txt, log_ext}

HasForbiddenCharacter(s) == \E i \in 1..Len(s) : s[i] \in {"<", ">", "&", "%"}

\* the last call was set_level_formatting / set_file on the template
CompiledTemplate == last.op = "set_level_formatting"
SetFileCalled == last.op = "set_file"

\* C5: compiling a template fails whenever a colour tag appears while a
\* different colour is open.
C5_ColorMismatchFails ==
    (CompiledTemplate /\ HasColorMismatch(last.arg[2])) => last.res # "Ok"

\* C6: compiling a template fails for every placeholder whose name is not
\* one of message, time, date, file, line, level, module.
C6_UnknownPlaceholderFails ==
    (CompiledTemplate /\ ~(PlaceholderNames(last.arg[2]) \subseteq KnownPlaceholders))
        => last.res # "Ok"

C8_LogPlaceholdersRejected ==
    (SetFileCalled /\ PlaceholderNames(last.arg) \cap {message, file, line, module} # {})
        => last.res # "Ok"

\* C9: set_file succeeds only if the template has none of the characters
\* < > & % and its last segment is a literal with a "." followed by txt or log.
C9_SetFileNeedsExtension ==
    (SetFileCalled /\ last.res = "Ok")
        => (~HasForbiddenCharacter(last.arg) /\ EndsWithLogExtension(last.arg))

\* a template with {date} in it and a literal with an extension at its end
\* was accepted and its manager installed
C9_Witness ==
    /\ SetFileCalled
    /\ last.res = "Ok"
    /\ PlaceholderNames(last.arg) = {date}
    /\ cfg.file_manager = Some(1)

----------------------------------------------------------------------------
(* One rotation check, read from the call recorded in last: the manager    *)
(* and the disk before the call against the manager and the disk after it. *)

\* the manager the call worked on, as it was before the call
pre_fm == last.pre.fm[unwrap(last.pre.cfg.file_manager)]

pre_rules == pre_fm.file_constraints.rotation

\* the path of the current file before the call, and its size
pre_file == get_full_file_name(pre_fm.file_name)

pre_size ==
    IF exists(last.pre.files, pre_file) THEN FileSize(last.pre.files[pre_file]) ELSE 0

\* the rules (counted from 0) that were due when the call checked them
DueBefore == {i \in 0..(Len(pre_rules) - 1) : rule_is_due(pre_rules[i + 1], pre_size, last.pre.now)}

IsTimed(rot) == rot.rotation_type.kind \in {"Period", "Time"}

\* a log call that reached the file manager and met no I/O failure
CleanLog == last.op = "log" /\ last.arg.io = {}

\* the line of the call, as the pieces write_to_file leaves in the file
LineOfCall(content) ==
    /\ Len(content) = 2
    /\ content[1].t = "text" /\ content[1].mess.id = last.arg.mess.id
    /\ content[2] = NewLine

\* C2: with the single rule Size(1024), zip compression and a current file of
\* more than 1024 bytes, a write rotates once: the current file then holds
\* exactly the line of the call, and the one archive the call leaves is the
\* archive of the old file, complete and holding the old file's lines.
C2_SizeRotationArchivesOldFile ==
    (/\ CleanLog
     /\ pre_rules = <<Rotation(Size(1024), 1024)>>
     /\ pre_fm.file_constraints.compression = "Zip"
     /\ pre_size > 1024)
    => /\ last.stats.n_new_file = 1
       /\ last.stats.n_compress = 1
       /\ exists(files, get_full_file_name(current_fm.file_name))
       /\ LineOfCall(files[get_full_file_name(current_fm.file_name)])
       /\ exists(archives, zip_file_path(pre_file))
       /\ archives[zip_file_path(pre_file)] =
              [complete |-> TRUE, content |-> last.pre.files[pre_file]]
       /\ \A q \in DOMAIN archives \ {zip_file_path(pre_file)} :
              exists(last.pre.archives, q) /\ archives[q] = last.pre.archives[q]

\* C3: when a rotation check regenerates any rule, it regenerates every rule
\* of the set, and no Period or Time rule that was due at the check is still
\* due after it.
C3_AllRulesRegenerated ==
    (CleanLog /\ last.res = "Ok" /\ last.stats.regenerated # {})
    => /\ last.stats.regenerated = 0..(Len(pre_rules) - 1)
       /\ \A i \in DueBefore :
              IsTimed(pre_rules[i + 1])
              => ~rule_is_due(current_fm.file_constraints.rotation[i + 1], 0, now)

\* C4: one write_log call creates at most one new file and attempts at most
\* one archive, whatever rules are due and whatever I/O call fails.
C4_OneRotationPerCheck ==
    last.op = "log" => last.stats.n_new_file <= 1 /\ last.stats.n_compress <= 1

\* two rules were due at the check, and the call rotated once
C4_Witness ==
    /\ last.op = "log"
    /\ Cardinality(DueBefore) >= 2
    /\ last.stats.n_new_file = 1
    /\ last.stats.n_compress = 1

----------------------------------------------------------------------------
(* The threshold, on the order the levels are documented in.               *)

DocumentedOrder == <<"TRACE", "DEBUG", "INFO", "WARN", "ERROR">>

Rank(l) == CHOOSE i \in 1..Len(DocumentedOrder) : DocumentedOrder[i] = l

\* the call recorded in last was made at a level below the threshold
BelowThreshold == last.op = "log" /\ Rank(last.arg.level) < Rank(last.pre.cfg.level)

\* C10: a log call below the threshold leaves the terminal, the files, the
\* archives and the file manager (its file name and its rules' triggers) as
\* they were; so terminal output or a file write means level >= threshold.
C10_BelowThresholdNoEffect ==
    BelowThreshold
    => /\ terminal = last.pre.terminal
       /\ files = last.pre.files
       /\ archives = last.pre.archives
       /\ fm = last.pre.fm

\* a call below the threshold, with the terminal on and a rule of the file
\* manager due: a call that passed would have printed, rotated and written
C10_Witness ==
    /\ BelowThreshold
    /\ cfg.print_to_terminal
    /\ cfg.file_manager # Absent
    /\ DueBefore # {}
    /\ terminal = last.pre.terminal
    /\ fm = last.pre.fm

----------------------------------------------------------------------------
(* The log file once every thread has finished.                            *)

AllDone == \A t \in Threads : pc[t] = "done"

\* the ids of the calls whose text sits at the odd places of the content
LineIds(content) == {content[2 * k - 1].mess.id : k \in 1..(Len(content) \div 2)}

\* the content is a sequence of whole lines: a text, then its newline
WholeLines(content) ==
    /\ Len(content) % 2 = 0
    /\ \A k \in 1..(Len(content) \div 2) :
          /\ content[2 * k - 1].t = "text"
          /\ content[2 * k] = NewLine

\* C1: once the ConcThreads threads have made their ConcCalls calls, the log
\* file holds ConcThreads * ConcCalls whole lines, one for every call: none
\* lost, none twice, none broken by another thread's write.
C1_ConcurrentLinesComplete ==
    AllDone
    => /\ exists(files, get_full_file_name(current_fm.file_name))
       /\ WholeLines(files[get_full_file_name(current_fm.file_name)])
       /\ Len(files[get_full_file_name(current_fm.file_name)]) = 2 * ConcThreads * ConcCalls
       /\ LineIds(files[get_full_file_name(current_fm.file_name)])
              = {ConcMess(t, n).id : t \in Threads, n \in 1..ConcCalls}

\* every thread has finished, and the lines of the threads alternate in the
\* file: the calls did contend for the manager
C1_Witness ==
    /\ AllDone
    /\ exists(files, get_full_file_name(current_fm.file_name))
    /\ Len(files[get_full_file_name(current_fm.file_name)]) = 2 * ConcThreads * ConcCalls
    /\ files[get_full_file_name(current_fm.file_name)][1].mess.id = ConcMess(2, 1).id
    /\ files[get_full_file_name(current_fm.file_name)][3].mess.id = ConcMess(1, 1).id

----------------------------------------------------------------------------
(* The rule an add_rotation call stored, against the documented units.     *)

\* the call recorded in last is add_rotation on the text of n and unit u
AddedRule(n, u) == last.op = "add_rotation" /\ last.arg = to_string(n) \o u

\* the rules of the current manager after the call
rules_now == current_fm.file_constraints.rotation

\* 1024^k
Kibi(k) == 1024 ^ k

\* the seconds of a period unit, as documented: month = 30 days, year = 365
DocumentedSeconds(u) ==
    CASE u = hour -> 3600
      [] u = day -> 86400
      [] u = week -> 604800
      [] u = month -> 2592000
      [] u = year -> 31536000

\* C12: "<n> KB|MB|GB|TB" stores a Size rule of n * 1024^k bytes, k = 1, 2,
\* 3, 4 (stated without the product n * 1024^k: the threshold is a multiple
\* of 1024^(k-1) and its quotient is n * 1024).
C12_SizeUnitsAreBinary ==
    \A n \in UnitNumbers, k \in 1..4 :
        AddedRule(n, SizeUnits[k])
        => /\ last.res = "Ok"
           /\ Len(rules_now) = 1
           /\ rules_now[1].rotation_type.kind = "Size"
           /\ rules_now[1].rotation_type.a % Kibi(k - 1) = 0
           /\ rules_now[1].rotation_type.a \div Kibi(k - 1) = n * 1024

\* C13: "<n> hour|day|week|month|year" stores a Period rule of n times the
\* seconds of the unit, and the call returns (stated without the product:
\* the period is a multiple of the unit and its quotient is n).
C13_PeriodIsExactProduct ==
    \A n \in UnitNumbers, u \in PeriodUnits :
        AddedRule(n, u)
        => /\ last.res = "Ok"
           /\ Len(rules_now) = 1
           /\ rules_now[1].rotation_type.kind = "Period"
           /\ rules_now[1].rotation_type.a % DocumentedSeconds(u) = 0
           /\ rules_now[1].rotation_type.a \div DocumentedSeconds(u) = n

----------------------------------------------------------------------------
(* Rejected setter arguments.                                              *)

AllDigits(s) == s # <<>> /\ \A i \in 1..Len(s) : IsDigit(s[i])

\* the documented rule grammar: "<integer> KB|MB|GB|TB",
\* "<integer> hour|day|week|month|year", "HH:MM" with 0..23 and 0..59
DocumentedRule(s) ==
    \/ \E u \in {KB, MB, GB, TB, hour, day, week, month, year} :
          /\ EndsWith(s, u)
          /\ AllDigits(SubSeq(s, 1, Len(s) - Len(u)))
    \/ \E i \in 1..Len(s) :
          /\ s[i] = ":"
          /\ AllDigits(SubSeq(s, 1, i - 1)) /\ AllDigits(SubSeq(s, i + 1, Len(s)))
          /\ digits_value(SubSeq(s, 1, i - 1), 0) <= 23
          /\ digits_value(SubSeq(s, i + 1, Len(s)), 0) <= 59

\* C11: add_rotation with a string that is no rule of the documented grammar
\* returns an error, and the configuration and every manager, the rule list
\* with its order and its trigger values included, are as before the call.
C11_InvalidRuleKeepsRules ==
    last.op = "add_rotation" /\ ~DocumentedRule(last.arg) =>
        /\ last.res \in {"IncorrectFormatGiven", "FileIsntSet"}
        /\ last.pre.cfg.file_manager # Absent => last.res = "IncorrectFormatGiven"
        /\ cfg = last.pre.cfg
        /\ fm = last.pre.fm

\* "dfsa week" is rejected by a manager holding two different rules
C11_Witness ==
    /\ last.op = "add_rotation"
    /\ last.arg = <<"d", "f", "s", "a">> \o week
    /\ last.res = "IncorrectFormatGiven"
    /\ last.pre.cfg.file_manager # Absent
    /\ Len(pre_rules) = 2
    /\ pre_rules[1] # pre_rules[2]
    /\ current_fm.file_constraints.rotation = pre_rules

\* C14: on an installed manager set_compression accepts the string "zip" and
\* no other: any other string returns IncorrectCompressionValue and leaves
\* the configuration and every manager (compression, rules) as before.
C14_OnlyZipAccepted ==
    last.op = "set_compression" /\ last.pre.cfg.file_manager # Absent =>
        IF last.arg = <<"z", "i", "p">>
        THEN /\ last.res = "Ok"
             /\ current_fm.file_constraints.compression = "Zip"
             /\ rules_now = pre_rules
        ELSE /\ last.res = "IncorrectCompressionValue"
             /\ cfg = last.pre.cfg
             /\ fm = last.pre.fm

\* "rar" is rejected by a manager that compresses with zip and holds a rule
C14_Witness ==
    /\ last.op = "set_compression"
    /\ last.arg = <<"r", "a", "r">>
    /\ last.res = "IncorrectCompressionValue"
    /\ last.pre.cfg.file_manager # Absent
    /\ pre_fm.file_constraints.compression = "Zip"
    /\ Len(pre_rules) > 0
    /\ current_fm = pre_fm

\* C15: add_rotation and set_compression called while the configuration has
\* no file manager return FileIsntSet, whatever the argument, and leave the
\* configuration as it was, without a file manager.
C15_NoManagerIsFileIsntSet ==
    /\ last.op \in {"add_rotation", "set_compression"}
    /\ last.pre.cfg.file_manager = Absent
    => /\ last.res = "FileIsntSet"
       /\ cfg = last.pre.cfg
       /\ cfg.file_manager = Absent
       /\ fm = last.pre.fm

\* "1 hour" is refused after init dropped a manager that had been installed
C15_Witness ==
    /\ last.op = "add_rotation"
    /\ last.arg = <<"1">> \o hour
    /\ last.res = "FileIsntSet"
    /\ last.pre.cfg.file_manager = Absent
    /\ Len(fm) > 0

ConfigSetters ==
    {"set_level_formatting", "set_global_formatting", "set_file", "set_archive_dir"}

\* C16: set_level_formatting, set_global_formatting, set_file and
\* set_archive_dir, when they return an error, leave the threshold, the two
\* flags, the five formatters, the file manager handle, the managers behind
\* the handles and archive_dir as they were before the call.
C16_FailedSetterKeepsConfig ==
    last.op \in ConfigSetters /\ last.res # "Ok" =>
        /\ cfg.level = last.pre.cfg.level
        /\ cfg.print_to_terminal = last.pre.cfg.print_to_terminal
        /\ cfg.colorized = last.pre.cfg.colorized
        /\ \A l \in {"TRACE", "DEBUG", "INFO", "WARN", "ERROR"} :
              cfg.formats[l] = last.pre.cfg.formats[l]
        /\ cfg.file_manager = last.pre.cfg.file_manager
        /\ cfg.archive_dir = last.pre.cfg.archive_dir
        /\ fm = last.pre.fm

\* set_global_formatting rejects a format while nothing of the configuration
\* has its default value
C16_Witness ==
    /\ last.op = "set_global_formatting"
    /\ last.res = "IncorrectFormatGiven"
    /\ cfg.level = "WARN"
    /\ cfg.formats["INFO"] # LogFormatter_default
    /\ cfg.archive_dir # Absent
    /\ cfg.file_manager # Absent
    /\ Len(rules_now) > 0
    /\ cfg = last.pre.cfg

----------------------------------------------------------------------------
(* Replacing the file manager.                                             *)

\* C18: after a successful set_file(t) the configuration points at a new
\* manager with the template t, no rotation rule and no compression, whatever
\* the replaced manager held; the other fields of Config are unchanged.
C18_SetFileInstallsFreshManager ==
    last.op = "set_file" /\ last.res = "Ok" =>
        /\ cfg.file_manager # Absent
        /\ cfg.file_manager # last.pre.cfg.file_manager
        /\ current_fm.file_format = try_from_string(last.arg).val
        /\ rules_now = <<>>
        /\ current_fm.file_constraints.compression = None
        /\ cfg = [last.pre.cfg EXCEPT !.file_manager = cfg.file_manager]

\* "b.txt" replaces a manager of another template that held two rules and zip
C18_Witness ==
    /\ last.op = "set_file"
    /\ last.res = "Ok"
    /\ last.arg = <<"b", ".">> \o txt
    /\ last.pre.cfg.file_manager # Absent
    /\ Len(pre_rules) = 2
    /\ pre_fm.file_constraints.compression = "Zip"
    /\ pre_fm.file_format # current_fm.file_format
    /\ rules_now = <<>>

----------------------------------------------------------------------------
(* Loading a configuration file.                                           *)

\* C17: when load_config_from_file returns an error, the configuration is
\* the one before the call, and a manager installed before the call has the
\* rotation rules and the compression it had.
C17_FailedLoadRestoresAll ==
    last.op = "load_config_from_file" /\ last.res \notin {"Ok", "panic"} =>
        /\ cfg = last.pre.cfg
        /\ last.pre.cfg.file_manager # Absent =>
              current_fm.file_constraints = pre_fm.file_constraints

----------------------------------------------------------------------------
(* I/O failures in write_log.                                              *)

\* the errors of verify_constraints that leave no new file: exists,
\* File::create and open on the current file, create_new_file
EnsureErrors ==
    {"UnableToVerifyFileExistence", "UnableToCreateFile", "UnableToOpenFile",
     "UnableToCreateNewFile"}

\* the ensure / create / rotate step of the last write_log failed with e
StepFailed(e) ==
    /\ last.op = "log" /\ last.res = "Ok"
    /\ ~last.stats.constrs.ok
    /\ last.stats.constrs.err = e

\* the content of the current file before the call (empty if it did not exist)
pre_content == IF exists(last.pre.files, pre_file) THEN last.pre.files[pre_file] ELSE <<>>

\* content is old followed by the line of the call
LineAppended(old, content) ==
    /\ Len(content) = Len(old) + 2
    /\ SubSeq(content, 1, Len(old)) = old
    /\ LineOfCall(SubSeq(content, Len(old) + 1, Len(content)))

\* C19: when the ensure / create / rotate step of write_log fails, the line
\* is still appended, and to the file that was the current file before the
\* call: that file then holds what it held, followed by the line.
C19_FailedStepWritesOldPath ==
    \A e \in EnsureErrors :
        StepFailed(e) =>
            /\ last.stats.res.ok
            /\ exists(files, pre_file)
            /\ LineAppended(pre_content, files[pre_file])

\* the path of the current file after the call
file_now == get_full_file_name(current_fm.file_name)

EndsWithLine(content) ==
    /\ Len(content) >= 2
    /\ LineOfCall(SubSeq(content, Len(content) - 1, Len(content)))

\* the old file is on disk and starts with what it held before the call
OldFileKept ==
    /\ exists(files, pre_file)
    /\ Len(files[pre_file]) >= Len(pre_content)
    /\ SubSeq(files[pre_file], 1, Len(pre_content)) = pre_content

\* C20: when the archiving of the old file fails during a rotation with zip
\* compression, the old file stays on disk with its contents and the line of
\* the call is appended to the new current file; and a call removes the old
\* file only when it has written the complete archive of it.
C20_FailedArchiveKeepsOldFile ==
    /\ StepFailed("UnableToCompressFile") /\ pre_fm.file_constraints.compression = "Zip"
       => /\ OldFileKept
          /\ exists(files, file_now)
          /\ EndsWithLine(files[file_now])
    /\ last.op = "log" /\ exists(last.pre.files, pre_file) /\ ~exists(files, pre_file)
       => /\ exists(archives, zip_file_path(pre_file))
          /\ archives[zip_file_path(pre_file)].complete

----------------------------------------------------------------------------
(* The archive directory.                                                  *)

StartsWith(s, prefix) ==
    /\ Len(s) >= Len(prefix)
    /\ SubSeq(s, 1, Len(prefix)) = prefix

\* the archives the last call created or rewrote
NewArchives ==
    {q \in DOMAIN archives :
        ~exists(last.pre.archives, q) \/ archives[q] # last.pre.archives[q]}

\* C21: once set_archive_dir(d) has succeeded, every archive a later
\* rotation produces lies in the directory d configured last.
C21_ArchivesInConfiguredDir ==
    last.op = "log" /\ cfg.archive_dir # Absent =>
        \A q \in NewArchives : StartsWith(q, unwrap(cfg.archive_dir) \o <<"/">>)

----------------------------------------------------------------------------
(* Re-initialisation.                                                      *)

\* "{file}-{line} <green>[{level}]<green> - {message}", compiled
DocumentedFormatter ==
    parse_from_string(<<"{", "f", "i", "l", "e", "}", "-", "{", "l", "i", "n", "e", "}",
                        " ", "<", "g", "r", "e", "e", "n", ">", "[", "{", "l", "e", "v",
                        "e", "l", "}", "]", "<", "g", "r", "e", "e", "n", ">", " ", "-",
                        " ", "{", "m", "e", "s", "s", "a", "g", "e", "}">>).val

\* C22: after init(), whatever setters ran before, the threshold is INFO,
\* print_to_terminal is true, colorized is false, the formatters are the
\* default ones, and there is no file manager and no archive directory.
C22_InitRestoresDefaults ==
    last.op = "init" =>
        /\ cfg.level = "INFO"
        /\ cfg.print_to_terminal = TRUE
        /\ cfg.colorized = FALSE
        /\ \A l \in {"TRACE", "DEBUG", "INFO", "WARN"} : cfg.formats[l] = DocumentedFormatter
        /\ cfg.formats["ERROR"] = parse_from_string(DefaultErrorFormatText).val
        /\ cfg.file_manager = Absent
        /\ cfg.archive_dir = Absent
        /\ DOMAIN cfg = {"level", "print_to_terminal", "colorized", "formats",
                         "file_manager", "archive_dir"}

\* init is called when no field of the configuration has its default
C22_Witness ==
    /\ last.op = "init"
    /\ last.pre.cfg.level = "ERROR"
    /\ ~last.pre.cfg.print_to_terminal
    /\ last.pre.cfg.colorized
    /\ \A l \in LevelSet : last.pre.cfg.formats[l] = parse_from_string(Ph(message)).val
    /\ last.pre.cfg.file_manager # Absent
    /\ Len(pre_rules) = 1
    /\ last.pre.cfg.archive_dir # Absent
    /\ cfg.file_manager = Absent

----------------------------------------------------------------------------
(* What rotations do to the files.                                         *)

\* the calls whose text a file content holds
LinesIn(content) ==
    {content[i].mess.id : i \in {j \in 1..Len(content) : content[j].t = "text"}}

\* the calls whose text is on disk, in a log file or in an archive
LinesKept ==
    UNION ({LinesIn(files[q]) : q \in DOMAIN files}
           \cup {LinesIn(archives[q].content) : q \in DOMAIN archives})

\* C23: as long as no I/O call fails, the line of every log call made so far
\* is in the current file, in a retired file on disk, or in an archive.
C23_NoLineDestroyed ==
    ~used.failed /\ ~Panicked => \A id \in 1..used.logs : id \in LinesKept

\* C24: the file create_new_file creates did not exist just before, and
\* after a rotation the current path is not the retired path.
C24_NewFileIsNew ==
    last.op = "log" /\ last.res = "Ok" =>
        \A i \in 1..Len(last.stats.n_created) :
            /\ ~last.stats.n_created[i].existed
            /\ last.stats.n_created[i].path # pre_file
            /\ file_now # pre_file

\* the template of the manager expanded at the instant of the last call
fresh_name == from_file_formatter(pre_fm.file_format, last.pre.cfg.level, last.pre.now).val

fresh_path == fresh_name.file_name \o <<".">> \o fresh_name.file_extension

\* base(n).ext
NumberedPath(n) ==
    fresh_name.file_name \o <<"(">> \o to_string(n) \o <<")", ".">> \o fresh_name.file_extension

\* the paths on disk when the rotation of the last call began: those before
\* the call and the current file, which the call ensures
ExistedAtRotation(q) == exists(last.pre.files, q) \/ q = pre_file

\* C25: a rotation ends with the freshly expanded name if no file has it,
\* and otherwise with base(n).ext for the first n no file has.
C25_FreshNameThenDisambiguator ==
    CleanLog /\ last.res = "Ok" /\ last.stats.n_created # <<>> =>
        IF ~ExistedAtRotation(fresh_path) THEN file_now = fresh_path
        ELSE \E n \in 1..(Cardinality(DOMAIN last.pre.files) + 1) :
                /\ file_now = NumberedPath(n)
                /\ ~ExistedAtRotation(NumberedPath(n))
                /\ \A k \in 1..(n - 1) : ExistedAtRotation(NumberedPath(k))

----------------------------------------------------------------------------
(* The locks of a log call                                                 *)

\* the threads between the start of the rotation check and the end of the
\* append, and the thread that changes the rules of the manager
InWriteLog == {t \in LockThreads : At(t).op \in {"verify", "append", "add_rule"}}

\* C26: write_log runs whole under the mutex of the manager: at most one
\* thread is between the start of the rotation check and the end of the
\* append, that thread holds the mutex, and no other thread has changed a
\* file between its rotation check and its own append
C26_WriteLogUnderMutex ==
    /\ Cardinality(InWriteLog) <= 1
    /\ \A t \in InWriteLog : mutex = Some(t)
    /\ \A t \in Loggers : At(t).op = "append" => files = local[t].seen

\* a thread has rotated the file and is about to append while the other
\* threads wait for the mutex
C26_Witness ==
    \E t \in Loggers :
        /\ At(t).op = "append"
        /\ last.pre.files # EmptyFs
        /\ files[file_now] = <<>>
        /\ \A u \in LockThreads \ {t} : At(u).op = "mutex_lock"

\* C27: no thread asks for the read lock of the configuration while it
\* holds a read guard of it
C27_NoNestedReadLock ==
    \A t \in LockThreads : At(t).op = "read_lock" => ReadGuards(t) = {}

\* a state no thread can leave although calls have not returned: print_log
\* holds its read guard and asks for another one behind a waiting writer
C27_Stuck ==
    /\ \E t \in LockThreads : ~Finished(t) /\ pc[t] > 0
    /\ \A t \in LockThreads :
          \/ Finished(t)
          \/ At(t).op = "read_lock" /\ ~read_available(rwlock, build.writers_first)
          \/ At(t).op = "write_lock" /\ {g \in rwlock : g.kind \in {"read", "write"}} # {}

C27_NeverStuck == ~C27_Stuck

\* C28: a thread that acquires or holds the mutex of the manager, or does
\* I/O, holds no guard of the configuration lock
C28_NoConfigGuardUnderMutex ==
    \A t \in LockThreads :
        \/ mutex = Some(t)
        \/ At(t).op \in {"mutex_lock", "verify", "append", "add_rule", "mutex_unlock", "print"}
        => {g \in rwlock : g.t = t /\ g.kind \in {"read", "write"}} = {}

\* a thread appends under the mutex while another thread holds a read guard
\* and the writer waits
C28_Witness ==
    /\ \E t \in Loggers : At(t).op = "append" /\ mutex = Some(t)
    /\ \E u \in Loggers : ReadGuards(u) # {}
    /\ WaitingWriters # {}

----------------------------------------------------------------------------
(* The trigger of a time-of-day rule                                       *)

AddedTimeRule(h, m) == last.op = "add_rotation" /\ last.arg = TimeText(h, m)

\* the trigger is the next instant after t whose clock reads h:m
NextClockReading(trigger, t, h, m) ==
    /\ trigger > t
    /\ trigger - t < SECONDS_IN_DAY + 60
    /\ get_current_time_in_utc(trigger).hour = h
    /\ get_current_time_in_utc(trigger).minute = m

\* C29: a Time(h, m) rule set up at now gets as its trigger the next future
\* instant whose clock reads h:m, for every h in 0..23 and m in 0..59
C29_TimeTriggerIsNextClockReading ==
    \A h \in ClockHours, m \in ClockMinutes :
        AddedTimeRule(h, m)
        => /\ last.res = "Ok"
           /\ Len(rules_now) = 1
           /\ rules_now[1].rotation_type = Time(h, m)
           /\ NextClockReading(rules_now[1].next_rotation, last.pre.now, h, m)

\* the part of C29 that holds: a reading still to come today, and 0:00 to
\* 0:04 tomorrow
C29_TodayBranch ==
    \A h \in ClockHours, m \in ClockMinutes :
        /\ AddedTimeRule(h, m)
        /\ next_rotation_is_today(Time(h, m), last.pre.now) \/ (h = 0 /\ m < 5)
        => /\ last.res = "Ok"
           /\ NextClockReading(rules_now[1].next_rotation, last.pre.now, h, m)

----------------------------------------------------------------------------
(* The rule scan of verify_constraints                                     *)

\* how often the scan of the call used index k on the rule list
VisitsOf(k) == Cardinality({i \in 1..Len(last.stats.visits) : last.stats.visits[i] = k})

\* C30: the rule scan of verify_constraints ends, uses only indexes of the
\* rule list, and visits no rule more than twice, whatever the number of
\* rules and the position of the rule that fires
C30_ScanBounded ==
    last.op = "log"
    => /\ ~Panicked
       /\ \A i \in 1..Len(last.stats.visits) :
             last.stats.visits[i] \in 0..(Len(pre_rules) - 1)
       /\ \A k \in 0..(Len(pre_rules) - 1) : VisitsOf(k) <= 2
       /\ Len(last.stats.visits) <= 2 * Len(pre_rules)

\* the second of three rules fired: the scan went on to the third rule and
\* came back to the first
C30_Witness ==
    /\ last.op = "log"
    /\ Len(pre_rules) = 3
    /\ last.stats.n_new_file = 1
    /\ last.stats.visits = <<0, 1, 2, 0>>

\* the other cases of the scan: no rule, the last rule fires, the first
\* rule fires
ScanOfNoRule == last.op = "log" /\ pre_rules = <<>> /\ last.stats.visits = <<>>
ScanLastFires == last.op = "log" /\ last.stats.visits = <<0, 1, 2, 0, 1>>
ScanFirstFires ==
    /\ last.op = "log"
    /\ Len(pre_rules) = 3
    /\ last.stats.n_new_file = 1
    /\ last.stats.visits = <<0>>

----------------------------------------------------------------------------
(* create_new_file                                                         *)

\* C31: create_new_file returns, and when it returns Ok the current file
\* name of the manager names a file on disk, at every call of a run
C31_CreatedFileExists ==
    last.op = "create_new_file" /\ last.res = "Ok" => exists(files, file_now)

\* the third call of a run returns Ok after it found the current name and
\* the first disambiguated name taken
C31_Witness ==
    /\ last.op = "create_new_file"
    /\ last.res = "Ok"
    /\ used.logs = MaxCreates
    /\ ~used.failed
    /\ exists(last.pre.files, pre_file)
    /\ \A q \in LeftOver : exists(last.pre.files, q)
    /\ exists(files, file_now)

----------------------------------------------------------------------------
(* The rules write_log leaves                                              *)

\* the kinds and parameters of a rule list, in order
RuleTypes(rules) == [i \in 1..Len(rules) |-> rules[i].rotation_type]

\* C32: write_log changes only the triggers of Period and Time rules: the
\* number, the order and the kinds of the rules are those before the call,
\* and the threshold of every Size(s) rule is s, in every state
C32_WriteLogKeepsRules ==
    /\ last.op = "log" /\ last.pre.cfg.file_manager # Absent /\ cfg.file_manager # Absent
       => RuleTypes(rules_now) = RuleTypes(pre_rules)
    /\ \A i \in 1..Len(fm) : \A j \in 1..Len(fm[i].file_constraints.rotation) :
          With(fm[i].file_constraints.rotation[j], LAMBDA rot :
              rot.rotation_type.kind = "Size" => rot.next_rotation = rot.rotation_type.a)

\* a log call rotated and regenerated both rules of the manager, a Size
\* rule among them
C32_Witness ==
    /\ last.op = "log"
    /\ last.res = "Ok"
    /\ last.pre.cfg.file_manager # Absent
    /\ last.stats.regenerated = {0, 1}
    /\ \E j \in 1..Len(rules_now) : rules_now[j].rotation_type.kind = "Size"
    /\ \E j \in 1..Len(rules_now) : rules_now[j].next_rotation # pre_rules[j].next_rotation

----------------------------------------------------------------------------
(* A rotation whose create_new_file fails                                  *)

\* C33: if create_new_file fails during the rotation check, the rules with
\* their triggers and the current file name are those before the check
C33_FailedCreateKeepsRulesAndName ==
    StepFailed("UnableToCreateNewFile")
    => /\ rules_now = pre_rules
       /\ current_fm.file_name = pre_fm.file_name

\* the part of C33 that holds: the number and the kinds of the rules stay
C33_FailedCreateKeepsKinds ==
    StepFailed("UnableToCreateNewFile") => RuleTypes(rules_now) = RuleTypes(pre_rules)

----------------------------------------------------------------------------
(* Rotation without compression                                            *)

\* a log call without I/O failure rotated the file of a manager that has
\* no compression
RotatedWithoutCompression ==
    /\ CleanLog
    /\ last.res = "Ok"
    /\ last.stats.n_new_file = 1
    /\ pre_fm.file_constraints.compression = None

\* C34: without compression a rotation creates the new current file, leaves
\* the old file on disk with its contents, creates no archive and no archive
\* directory, and the rotation check reports NewFileCreated
C34_PlainRotationSucceeds ==
    RotatedWithoutCompression
    => /\ exists(files, file_now)
       /\ OldFileKept
       /\ archives = last.pre.archives
       /\ archive_dir_exists = last.pre.archive_dir_exists
       /\ last.stats.constrs = Ok("NewFileCreated")

\* the part of C34 that holds: the new current file exists, no archive is
\* written, and an old file of another name keeps its contents
C34_PlainRotationWritesNoArchive ==
    RotatedWithoutCompression
    => /\ exists(files, file_now)
       /\ archives = last.pre.archives
       /\ file_now # pre_file => OldFileKept

----------------------------------------------------------------------------
(* Archives of successive rotations                                        *)

\* C35: a rotation never overwrites the archive an earlier rotation wrote:
\* an archive that was complete before a log call is the same after it
C35_ArchivesNotOverwritten ==
    last.op = "log"
    => \A q \in DOMAIN last.pre.archives :
          last.pre.archives[q].complete
          => exists(archives, q) /\ archives[q] = last.pre.archives[q]

----------------------------------------------------------------------------
(* set_file and the disk                                                   *)

\* C36: set_file, accepted or rejected, creates, truncates and deletes no
\* file: the disk after the call is the disk before it
C36_SetFileTouchesNoFile ==
    last.op = "set_file"
    => /\ files = last.pre.files
       /\ archives = last.pre.archives
       /\ archive_dir_exists = last.pre.archive_dir_exists

\* set_file was accepted while a file of the new manager's name was on disk:
\* the file holds what it held
C36_Witness ==
    /\ last.op = "set_file"
    /\ last.res = "Ok"
    /\ exists(files, file_now)
    /\ files[file_now] = OldContent

\* set_file was rejected on a disk that holds files
C36_RejectedCase ==
    last.op = "set_file" /\ last.res # "Ok" /\ DOMAIN files = LeftOver

----------------------------------------------------------------------------
(* set_level_formatting and the other fields                               *)

\* C37: an accepted set_level_formatting(L, f) stores the compiled f as the
\* formatter of L and changes nothing else: the formatters of the other
\* levels, the threshold, the two flags, the file manager and archive_dir
C37_LevelFormattingChangesOneLevel ==
    last.op = "set_level_formatting" /\ last.res = "Ok"
    => /\ cfg.formats[last.arg[1]] = parse_from_string(last.arg[2]).val
       /\ \A l \in LevelSet \ {last.arg[1]} : cfg.formats[l] = last.pre.cfg.formats[l]
       /\ cfg.level = last.pre.cfg.level
       /\ cfg.print_to_terminal = last.pre.cfg.print_to_terminal
       /\ cfg.colorized = last.pre.cfg.colorized
       /\ cfg.file_manager = last.pre.cfg.file_manager
       /\ cfg.archive_dir = last.pre.cfg.archive_dir
       /\ fm = last.pre.fm

\* an accepted call gave WARN a formatter other than the one it had
C37_Witness ==
    /\ last.op = "set_level_formatting"
    /\ last.res = "Ok"
    /\ last.arg[1] = "WARN"
    /\ cfg.formats["WARN"] # last.pre.cfg.formats["WARN"]
    /\ cfg.formats["ERROR"] # cfg.formats["WARN"]

----------------------------------------------------------------------------
(* Colour escape codes                                                     *)

\* no segment of the line carries the escape codes of a colour
PlainLine(mess) == \A i \in 1..Len(mess.segs) : mess.segs[i].color = None

\* the colours of the segments are those of the parts of the formatter
ColouredAs(mess, parts) ==
    /\ Len(mess.segs) = Len(parts)
    /\ \A i \in 1..Len(parts) : mess.segs[i].color = parts[i].color

\* C38: no line in a log file carries colour escape codes; a line on the
\* terminal carries them for exactly the parts that have a colour when
\* colorized is true, and for no part when it is false
C38_NoEscapeCodesInFiles ==
    /\ \A q \in DOMAIN files : \A i \in 1..Len(files[q]) :
          files[q][i].t = "text" => PlainLine(files[q][i].mess)
    /\ last.op = "log" /\ Len(terminal) > Len(last.pre.terminal)
       => With(terminal[Len(terminal)].line, LAMBDA mess :
              IF last.pre.cfg.colorized
              THEN ColouredAs(mess, last.pre.cfg.formats[last.arg.level])
              ELSE PlainLine(mess))

\* with colorized true a call printed a line with a coloured segment and
\* wrote its line to the file
C38_Witness ==
    /\ last.op = "log"
    /\ last.pre.cfg.colorized
    /\ Len(terminal) > Len(last.pre.terminal)
    /\ ~PlainLine(terminal[Len(terminal)].line)
    /\ cfg.file_manager # Absent
    /\ exists(files, file_now)
    /\ EndsWithLine(files[file_now])

----------------------------------------------------------------------------
(* seconds_to_ymdhms                                                       *)

\* the days of a month of the Gregorian calendar
GregorianDays(y, m) ==
    IF m = 2
    THEN (IF y % 400 = 0 THEN 29 ELSE IF y % 100 = 0 THEN 28 ELSE IF y % 4 = 0 THEN 29 ELSE 28)
    ELSE IF m \in {4, 6, 9, 11} THEN 30 ELSE 31

\* the days from 1970-01-01 to the date y-m-d, by the closed formula of the
\* proleptic Gregorian calendar, whose year starts in March
DaysFromCivil(y, m, d) ==
    LET yy == IF m <= 2 THEN y - 1 ELSE y
        era == yy \div 400
        yoe == yy - era * 400
        mp == IF m > 2 THEN m - 3 ELSE m + 9
        doy == (153 * mp + 2) \div 5 + d - 1
        doe == yoe * 365 + yoe \div 4 - yoe \div 100 + doy
    IN  era * 146097 + doe - 719468

\* C39: seconds_to_ymdhms(s) is the UTC calendar decomposition of s: the
\* epoch gives 1970-01-01 00:00:00, the month is in 1..12, the day within
\* the month, hour < 24, minute < 60, second < 60, and the date and the
\* time convert back to the days and the seconds of the day of s
C39_CalendarDecomposition ==
    last.op = "seconds_to_ymdhms"
    => With(last.stats, LAMBDA r :
          /\ last.arg = <<0, 0>>
             => r = [year |-> 1970, month |-> 1, day |-> 1,
                     hour |-> 0, minute |-> 0, second |-> 0]
          /\ r.month \in 1..12
          /\ r.day \in 1..GregorianDays(r.year, r.month)
          /\ r.hour \in 0..23 /\ r.minute \in 0..59 /\ r.second \in 0..59
          /\ DaysFromCivil(r.year, r.month, r.day) = last.arg[1]
          /\ r.hour * 3600 + r.minute * 60 + r.second = last.arg[2])

\* the last second of 2100-02-28 and the first of 2100-03-01, the days
\* around the leap day a century year does not have
C39_Witness ==
    /\ last.op = "seconds_to_ymdhms"
    /\ last.stats.year = 2100
    /\ \/ last.stats = [year |-> 2100, month |-> 2, day |-> 28,
                        hour |-> 23, minute |-> 59, second |-> 59]
       \/ last.stats = [year |-> 2100, month |-> 3, day |-> 1,
                        hour |-> 0, minute |-> 0, second |-> 0]

\* the epoch and the leap day of 2000 are converted as well
YmdEpoch == last.op = "seconds_to_ymdhms" /\ last.arg = <<0, 0>>
YmdLeapDay == last.op = "seconds_to_ymdhms" /\ last.stats.month = 2 /\ last.stats.day = 29

============================================================================
